---- MODULE Spec2Model ----
(***************************************************************************)
(* Model of the shader-interface code generator of vulkan-slang-renderer   *)
(* (src/src/shaders/build_tasks.rs): the std140 / std430 layout synthesis, *)
(* the per-shader struct-definition registry, and the build loop that      *)
(* drives them; of the renderer's handle arenas (renderer/storage_buffer.rs *)
(* and renderer/pipeline.rs); and of the application loop (app.rs).         *)
(***************************************************************************)
EXTENDS Integers, Sequences, FiniteSets, TLC

VARIABLES
    shaders,                 \* the reflected shaders of the build, in file-discovery order
    shader_idx,              \* index of the shader being processed (1-based)
    pc,                      \* position in write_precompiled_shaders / build_generated_source_file
    block_idx,               \* index of the next parameter block of the current shader
    struct_defs,             \* Vec<GeneratedStructDefinition> of the current shader
    required_resources,      \* Vec<RequiredResource> of the current shader
    vertex_type_name,        \* Option<String>
    vertex_impl_blocks,      \* Vec<VertexImplBlock>
    panicked,                \* a panic!/todo! unwound the build
    synthesized,             \* returns of generate_std140/std430_struct_fields, in return order
    registrations,           \* calls of try_add_struct_def, in call order
    generated_source_files,  \* Vec<GeneratedFile> collected so far
    written_files,           \* generated files written to the rust source dir
    storage_buffers,         \* StorageBufferStorage.0: Vec<Option<Vec<RawStorageBuffer>>>
    storage_buffer_handles,  \* the calls of StorageBufferStorage::add, in call order
    pipelines,               \* PipelineStorage.0: Vec<Option<RendererPipeline>>
    pipeline_handles,        \* the calls of PipelineStorage::add, in call order
    unwrap_panicked,         \* an unwrap() of an emptied slot panicked
    run_loop_pc,             \* position in App::run_loop
    quit,                    \* App.quit
    minimized,               \* App.minimized
    iterations,              \* iterations of the loop of run_loop begun so far
    frames_drawn,            \* calls of game.draw_frame that returned Ok
    drain_gpu_calls,         \* calls of renderer.drain_gpu
    run_loop_result          \* what run_loop returned: None until it has

build_vars == <<shaders, shader_idx, pc, block_idx, struct_defs, required_resources,
                vertex_type_name, vertex_impl_blocks, panicked, synthesized,
                registrations, generated_source_files, written_files>>

arena_vars == <<storage_buffers, storage_buffer_handles, pipelines, pipeline_handles,
                unwrap_panicked>>

app_vars == <<run_loop_pc, quit, minimized, iterations, frames_drawn, drain_gpu_calls,
              run_loop_result>>

vars == <<build_vars, arena_vars, app_vars>>

-----------------------------------------------------------------------------
(* Option<T>: None is the empty tuple, Some(x) the one-element tuple.       *)
None == <<>>
Some(x) == <<x>>
IsSome(o) == o # <<>>
Unwrap(o) == o[1]

SeqMax(s, floor) ==
    LET RECURSIVE go(_, _)
        go(i, m) == IF i > Len(s) THEN m
                    ELSE go(i + 1, IF s[i] > m THEN s[i] ELSE m)
    IN go(1, floor)

SeqSum(s) ==
    LET RECURSIVE go(_, _)
        go(i, acc) == IF i > Len(s) THEN acc ELSE go(i + 1, acc + s[i])
    IN go(1, 0)

Reverse(s) == [i \in 1..Len(s) |-> s[Len(s) + 1 - i]]

-----------------------------------------------------------------------------
(* Reflection input (shaders/json.rs): StructField and its bindings.  Every *)
(* field is a record of one shape; `tag` is the enum variant.               *)

UniformBinding(offset, size) == [tag |-> "Uniform", offset |-> offset, size |-> size]
OtherBinding == [tag |-> "DescriptorTableSlot", offset |-> 0, size |-> 0]
NoBinding == [tag |-> "None", offset |-> 0, size |-> 0]

BlankField ==
    [tag |-> "", field_name |-> "", scalar_type |-> "", element_count |-> 0,
     row_count |-> 0, column_count |-> 0, binding |-> NoBinding,
     type_name |-> "", fields |-> <<>>, resource_shape |-> "", result_type |-> ""]

ScalarField(name, scalar_type, binding) ==
    [BlankField EXCEPT !.tag = "Scalar", !.field_name = name,
                       !.scalar_type = scalar_type, !.binding = binding]

BoundVectorField(name, scalar_type, element_count, binding) ==
    [BlankField EXCEPT !.tag = "Vector", !.field_name = name,
                       !.scalar_type = scalar_type,
                       !.element_count = element_count, !.binding = binding]

SemanticVectorField(name, scalar_type, element_count) ==
    [BlankField EXCEPT !.tag = "SemanticVector", !.field_name = name,
                       !.scalar_type = scalar_type,
                       !.element_count = element_count]

MatrixField(name, scalar_type, rows, cols, binding) ==
    [BlankField EXCEPT !.tag = "Matrix", !.field_name = name,
                       !.scalar_type = scalar_type, !.row_count = rows,
                       !.column_count = cols, !.binding = binding]

StructFieldOf(name, type_name, fields, binding) ==
    [BlankField EXCEPT !.tag = "Struct", !.field_name = name,
                       !.type_name = type_name, !.fields = fields,
                       !.binding = binding]

TextureField(name) ==
    [BlankField EXCEPT !.tag = "Resource", !.field_name = name,
                       !.resource_shape = "Texture2D", !.result_type = "Vector",
                       !.scalar_type = "Float32", !.element_count = 4]

VectorBufferField(name, scalar_type) ==
    [BlankField EXCEPT !.tag = "Resource", !.field_name = name,
                       !.resource_shape = "StructuredBuffer",
                       !.result_type = "Vector", !.scalar_type = scalar_type]

StructBufferField(name, type_name, fields) ==
    [BlankField EXCEPT !.tag = "Resource", !.field_name = name,
                       !.resource_shape = "StructuredBuffer",
                       !.result_type = "Struct", !.type_name = type_name,
                       !.fields = fields]

-----------------------------------------------------------------------------
(* heck::ToSnakeCase on the field names the inputs use: a word boundary     *)
(* before an upper-case letter becomes '_' and the letter is lowered.       *)
to_snake_case(name) ==
    CASE name = "lightPos" -> "light_pos"
      [] name = "sphereCount" -> "sphere_count"
      [] name = "boxCount" -> "box_count"
      [] OTHER -> name

-----------------------------------------------------------------------------
(* Generated definitions (build_tasks.rs 655-708, 842-859).                 *)

Std140 == <<"Std140">>
Std430(struct_alignment) == <<"Std430", struct_alignment>>

new_field(field_name, type_name) ==
    [field_name |-> field_name, type_name |-> type_name]

padding(index, size) ==
    [field_name |-> "_padding_" \o ToString(index),
     type_name |-> "[u8; " \o ToString(size) \o "]"]

GeneratedStructDefinition(type_name, fields, alignment, expected_size) ==
    [type_name |-> type_name, fields |-> fields, alignment |-> alignment,
     expected_size |-> expected_size]

(* The N of #[repr(C, align(N))] that Alignment::annotation prints.         *)
annotation_align(alignment) ==
    IF alignment = Std140 THEN 16 ELSE alignment[2]

-----------------------------------------------------------------------------
(* Leaf helpers of the layout algorithm.                                    *)

field_offset_size(field) ==
    LET binding == CASE field.tag = "Scalar" -> Some(field.binding)
                     [] field.tag = "Vector" -> Some(field.binding)
                     [] field.tag = "SemanticVector" -> None
                     [] field.tag = "Matrix" -> Some(field.binding)
                     [] field.tag = "Struct" -> Some(field.binding)
                     [] field.tag = "Resource" -> None
    IN IF IsSome(binding) /\ Unwrap(binding).tag = "Uniform"
       THEN Some(<<Unwrap(binding).offset, Unwrap(binding).size>>)
       ELSE None

(* field_alignment that packs a 3-vector to 12 bytes.                       *)
field_alignment_packed(type_name) ==
    CASE type_name \in {"glam::Vec4", "glam::Mat4", "glam::Mat3", "glam::Mat2"} -> 16
      [] type_name = "glam::Vec3" -> 12
      [] type_name = "glam::Vec2" -> 8
      [] type_name \in {"f32", "u32", "i32"} -> 4
      [] OTHER -> 16

field_alignment(type_name) ==
    CASE type_name \in {"glam::Vec4", "glam::Mat4", "glam::Mat3", "glam::Mat2"} -> 16
      [] type_name = "glam::Vec3" -> 16
      [] type_name = "glam::Vec2" -> 8
      [] type_name \in {"f32", "u32", "i32"} -> 4
      [] OTHER -> 16

vector_alignment(element_count) ==
    CASE element_count = 4 -> 16
      [] element_count = 3 -> 16
      [] element_count = 2 -> 8
      [] OTHER -> 16

RECURSIVE std430_struct_alignment(_)
std430_field_alignment(field) ==
    CASE field.tag = "Scalar" -> 4
      [] field.tag = "Vector" -> vector_alignment(field.element_count)
      [] field.tag = "SemanticVector" -> vector_alignment(field.element_count)
      [] field.tag = "Matrix" -> 16
      [] field.tag = "Struct" -> std430_struct_alignment(field.fields)
      [] field.tag = "Resource" -> 0

std430_struct_alignment(fields) ==
    IF Len(fields) = 0 THEN 4
    ELSE SeqMax([i \in 1..Len(fields) |-> std430_field_alignment(fields[i])], 0)

(* align_to that always moves on to the next multiple.                      *)
align_to_next(offset, alignment) ==
    ((offset \div alignment) + 1) * alignment

align_to(offset, alignment) ==
    ((offset + alignment - 1) \div alignment) * alignment

std140_struct_alignment == 16

std430_minimum_alignment == 4

-----------------------------------------------------------------------------
(* TypeRegistry: try_add_struct_def (build_tasks.rs 812-840).  ctx bundles   *)
(* what a call can change: the registry, the panic flag and the two logs.   *)

find_struct_def(defs, type_name) ==
    LET hits == {i \in 1..Len(defs) : defs[i].type_name = type_name}
    IN IF hits = {} THEN None
       ELSE Some(defs[CHOOSE i \in hits : \A j \in hits : i <= j])

(* fields_match that compares the field counts only.                        *)
fields_match_by_length(existing, new_def) ==
    Len(existing.fields) = Len(new_def.fields)

fields_match(existing, new_def) ==
    /\ Len(existing.fields) = Len(new_def.fields)
    /\ \A i \in 1..Len(existing.fields) :
          /\ existing.fields[i].field_name = new_def.fields[i].field_name
          /\ existing.fields[i].type_name = new_def.fields[i].type_name

try_add_outcome_always_added(defs, new_def) == "added"

try_add_outcome(defs, new_def) ==
    IF ~IsSome(find_struct_def(defs, new_def.type_name)) THEN "added"
    ELSE IF fields_match(Unwrap(find_struct_def(defs, new_def.type_name)), new_def)
    THEN "redundant"
    ELSE "conflict"

register(ctx, new_def, outcome) ==
    [ctx EXCEPT
        !.struct_defs = IF outcome = "added" THEN Append(@, new_def) ELSE @,
        !.panicked = (outcome = "conflict"),
        !.registrations = Append(@, [candidate |-> new_def,
                                     registry |-> ctx.struct_defs,
                                     outcome |-> outcome,
                                     result |-> IF outcome = "added"
                                                THEN Append(ctx.struct_defs, new_def)
                                                ELSE ctx.struct_defs])]

try_add_struct_def(ctx, new_def) ==
    IF ctx.panicked THEN ctx
    ELSE register(ctx, new_def, try_add_outcome(ctx.struct_defs, new_def))

-----------------------------------------------------------------------------
(* LayoutSynthesizer: gather_struct_defs and the two padding loops          *)
(* (build_tasks.rs 364-616).  The Rust functions mutate struct_defs through *)
(* a &mut; here every operator takes ctx and returns the new ctx.  A panic  *)
(* unwinds: once ctx.panicked is set nothing more is changed.               *)

scalar_type_name(scalar_type) ==
    IF scalar_type = "Float32" THEN "f32" ELSE "u32"

(* vector_type_name that widens a 3-vector to a 4-vector.                   *)
vector_type_name_widened(scalar_type, element_count) ==
    CASE scalar_type = "Float32" /\ element_count = 4 -> Some("glam::Vec4")
      [] scalar_type = "Float32" /\ element_count = 3 -> Some("glam::Vec4")
      [] scalar_type = "Float32" /\ element_count = 2 -> Some("glam::Vec2")
      [] OTHER -> None

(* None is the panic!("vector not supported") arm.                          *)
vector_type_name(scalar_type, element_count) ==
    CASE scalar_type = "Float32" /\ element_count = 4 -> Some("glam::Vec4")
      [] scalar_type = "Float32" /\ element_count = 3 -> Some("glam::Vec3")
      [] scalar_type = "Float32" /\ element_count = 2 -> Some("glam::Vec2")
      [] OTHER -> None

(* matrix_type_name that falls back to a 4x4 matrix.                        *)
matrix_type_name_with_fallback(scalar_type, row_count, column_count) ==
    CASE scalar_type = "Float32" /\ row_count = 3 /\ column_count = 3 -> Some("glam::Mat3")
      [] scalar_type = "Float32" /\ row_count = 2 /\ column_count = 2 -> Some("glam::Mat2")
      [] OTHER -> Some("glam::Mat4")

(* None is the panic!("matrix not supported") arm.                          *)
matrix_type_name(scalar_type, row_count, column_count) ==
    CASE scalar_type = "Float32" /\ row_count = 4 /\ column_count = 4 -> Some("glam::Mat4")
      [] scalar_type = "Float32" /\ row_count = 3 /\ column_count = 3 -> Some("glam::Mat3")
      [] scalar_type = "Float32" /\ row_count = 2 /\ column_count = 2 -> Some("glam::Mat2")
      [] OTHER -> None

(* alignment.map(|a| ...) of the Struct arm, lines 575-581.                 *)
nested_alignment(alignment, fields) ==
    IF ~IsSome(alignment) THEN None
    ELSE IF Unwrap(alignment) = Std140 THEN Some(Std140)
    ELSE Some(Std430(std430_struct_alignment(fields)))

(* insert_padding that pads by the whole reported offset.                   *)
insert_padding_absolute(st, expected_offset) ==
    IF expected_offset > st.current_offset
    THEN [st EXCEPT
            !.generated_fields = Append(@, padding(st.padding_index, expected_offset)),
            !.padding_index = @ + 1]
    ELSE st

(* "Insert padding if needed", lines 396-404 and 458-466.                   *)
insert_padding(st, expected_offset) ==
    IF expected_offset > st.current_offset
    THEN [st EXCEPT
            !.generated_fields =
                Append(@, padding(st.padding_index, expected_offset - st.current_offset)),
            !.padding_index = @ + 1]
    ELSE st

(* trailing_padding that never pads.                                        *)
trailing_padding_missing(generated_fields, padding_index, current_offset, expected_size) ==
    generated_fields

(* "Add trailing padding if needed", lines 413-420 and 478-485.             *)
trailing_padding(generated_fields, padding_index, current_offset, expected_size) ==
    IF expected_size > current_offset
    THEN Append(generated_fields, padding(padding_index, expected_size - current_offset))
    ELSE generated_fields

(* "Track max alignment", lines 392-394.                                    *)
track_max_alignment(max_alignment, gen_field) ==
    LET field_align == field_alignment(gen_field.type_name)
    IN IF field_align > max_alignment THEN field_align ELSE max_alignment

(* Lines 406-407 and 468-469.                                               *)
push_field(st, gen_field, expected_offset, field_size) ==
    [st EXCEPT !.generated_fields = Append(@, gen_field),
               !.current_offset = expected_offset + field_size]

RECURSIVE gather_struct_defs(_, _, _)
RECURSIVE gather_sub_fields(_, _, _, _)
RECURSIVE generate_std430_struct_fields(_, _)
RECURSIVE std430_loop(_, _, _)

(* One iteration of the loop of generate_std430_struct_fields, 375-408,     *)
(* given g, what gather_struct_defs returned for the field.                 *)
std430_field_gathered(source_field, st, g) ==
    IF g.ctx.panicked \/ ~IsSome(g.field) THEN [st EXCEPT !.ctx = g.ctx]
    ELSE IF ~IsSome(field_offset_size(source_field))
    THEN [st EXCEPT !.ctx = g.ctx,
                    !.generated_fields = Append(@, Unwrap(g.field))]
    ELSE push_field(
             insert_padding(
                 [st EXCEPT !.ctx = g.ctx,
                            !.max_alignment = track_max_alignment(@, Unwrap(g.field))],
                 Unwrap(field_offset_size(source_field))[1]),
             Unwrap(g.field),
             Unwrap(field_offset_size(source_field))[1],
             Unwrap(field_offset_size(source_field))[2])

std430_field(source_field, st) ==
    std430_field_gathered(source_field, st,
        gather_struct_defs(source_field, st.ctx, Some(Std430(16))))

std430_loop(source_fields, i, st) ==
    IF i > Len(source_fields) \/ st.ctx.panicked THEN st
    ELSE std430_loop(source_fields, i + 1, std430_field(source_fields[i], st))

(* Lines 410-422, given the loop's final state and the rounded size.        *)
std430_result(source_fields, st, expected_size) ==
    IF st.ctx.panicked
    THEN [fields |-> <<>>, struct_alignment |-> 0, expected_size |-> 0,
          ctx |-> st.ctx]
    ELSE [fields |-> trailing_padding(st.generated_fields, st.padding_index,
                                      st.current_offset, expected_size),
          struct_alignment |-> st.max_alignment,
          expected_size |-> expected_size,
          ctx |-> [st.ctx EXCEPT !.synthesized = Append(@,
                      [rule |-> "Std430", source_fields |-> source_fields,
                       fields |-> trailing_padding(st.generated_fields,
                                      st.padding_index, st.current_offset,
                                      expected_size),
                       struct_alignment |-> st.max_alignment,
                       expected_size |-> expected_size])]]

std430_finish(source_fields, st) ==
    std430_result(source_fields, st, align_to(st.current_offset, st.max_alignment))

generate_std430_struct_fields(source_fields, ctx) ==
    std430_finish(source_fields,
        std430_loop(source_fields, 1,
            [generated_fields |-> <<>>, current_offset |-> 0,
             max_alignment |-> std430_minimum_alignment,
             padding_index |-> 0, ctx |-> ctx]))

(* The sub-field loop of the Struct arm, lines 568-573.                     *)
gather_sub_field(acc, g) ==
    [fields |-> IF IsSome(g.field) THEN Append(acc.fields, Unwrap(g.field))
                ELSE acc.fields,
     ctx |-> g.ctx]

gather_sub_fields(sub_fields, i, acc, alignment) ==
    IF i > Len(sub_fields) \/ acc.ctx.panicked THEN acc
    ELSE gather_sub_fields(sub_fields, i + 1,
             gather_sub_field(acc, gather_struct_defs(sub_fields[i], acc.ctx, alignment)),
             alignment)

(* The StructuredBuffer-of-struct arm, lines 508-528, given r, what         *)
(* generate_std430_struct_fields returned.                                  *)
gather_storage_struct(field, r) ==
    [field |-> None,
     ctx |-> try_add_struct_def(r.ctx,
                 GeneratedStructDefinition(field.type_name, r.fields,
                                           Some(Std430(r.struct_alignment)),
                                           Some(r.expected_size)))]

(* The Struct arm after its sub-field loop, lines 575-595.                  *)
gather_struct_field(field, ctx) ==
    IF ctx.panicked THEN [field |-> None, ctx |-> ctx]
    ELSE [field |-> Some(new_field(to_snake_case(field.field_name), field.type_name)),
          ctx |-> ctx]

gather_nested_struct(field, alignment, sub) ==
    gather_struct_field(field,
        try_add_struct_def(sub.ctx,
            GeneratedStructDefinition(field.type_name, sub.fields,
                                      nested_alignment(alignment, field.fields),
                                      None)))

(* The Scalar, Vector and Matrix arms: t is the host type, None the panic.  *)
gather_leaf(field, ctx, t) ==
    IF IsSome(t)
    THEN [field |-> Some(new_field(to_snake_case(field.field_name), Unwrap(t))),
          ctx |-> ctx]
    ELSE [field |-> None, ctx |-> [ctx EXCEPT !.panicked = TRUE]]

gather_struct_defs(field, ctx, alignment) ==
    IF ctx.panicked THEN [field |-> None, ctx |-> ctx]
    ELSE CASE field.tag = "Resource" ->
             IF field.resource_shape = "Texture2D" \/ field.result_type = "Vector"
             THEN [field |-> None, ctx |-> ctx]
             ELSE gather_storage_struct(field,
                      generate_std430_struct_fields(field.fields, ctx))
           [] field.tag = "Scalar" ->
             gather_leaf(field, ctx, Some(scalar_type_name(field.scalar_type)))
           [] field.tag = "SemanticVector" -> [field |-> None, ctx |-> ctx]
           [] field.tag = "Vector" ->
             gather_leaf(field, ctx,
                         vector_type_name(field.scalar_type, field.element_count))
           [] field.tag = "Struct" ->
             gather_nested_struct(field, alignment,
                 gather_sub_fields(field.fields, 1,
                                   [fields |-> <<>>, ctx |-> ctx], alignment))
           [] field.tag = "Matrix" ->
             gather_leaf(field, ctx,
                         matrix_type_name(field.scalar_type, field.row_count,
                                          field.column_count))

(* One iteration of the loop of generate_std140_struct_fields, 436-470,     *)
(* given g, what gather_struct_defs returned for the field.                 *)
std140_field_gathered(source_field, st, g) ==
    IF source_field.tag = "Resource" THEN [st EXCEPT !.ctx = g.ctx]
    ELSE IF g.ctx.panicked \/ ~IsSome(g.field) THEN [st EXCEPT !.ctx = g.ctx]
    ELSE IF ~IsSome(field_offset_size(source_field))
    THEN [st EXCEPT !.ctx = g.ctx,
                    !.generated_fields = Append(@, Unwrap(g.field))]
    ELSE push_field(
             insert_padding([st EXCEPT !.ctx = g.ctx],
                            Unwrap(field_offset_size(source_field))[1]),
             Unwrap(g.field),
             Unwrap(field_offset_size(source_field))[1],
             Unwrap(field_offset_size(source_field))[2])

std140_field(source_field, st) ==
    std140_field_gathered(source_field, st,
        gather_struct_defs(source_field, st.ctx, Some(Std140)))

RECURSIVE std140_loop(_, _, _)
std140_loop(source_fields, i, st) ==
    IF i > Len(source_fields) \/ st.ctx.panicked THEN st
    ELSE std140_loop(source_fields, i + 1, std140_field(source_fields[i], st))

(* Lines 472-487, given the loop's final state and the rounded size.        *)
std140_result(source_fields, st, struct_alignment, expected_size) ==
    IF st.ctx.panicked
    THEN [fields |-> <<>>, struct_alignment |-> 0, expected_size |-> 0,
          ctx |-> st.ctx]
    ELSE [fields |-> trailing_padding(st.generated_fields, st.padding_index,
                                      st.current_offset, expected_size),
          struct_alignment |-> struct_alignment,
          expected_size |-> expected_size,
          ctx |-> [st.ctx EXCEPT !.synthesized = Append(@,
                      [rule |-> "Std140", source_fields |-> source_fields,
                       fields |-> trailing_padding(st.generated_fields,
                                      st.padding_index, st.current_offset,
                                      expected_size),
                       struct_alignment |-> struct_alignment,
                       expected_size |-> expected_size])]]

std140_finish(source_fields, st) ==
    std140_result(source_fields, st, std140_struct_alignment,
                  align_to(st.current_offset, std140_struct_alignment))

generate_std140_struct_fields(source_fields, ctx) ==
    std140_finish(source_fields,
        std140_loop(source_fields, 1,
            [generated_fields |-> <<>>, current_offset |-> 0,
             padding_index |-> 0, ctx |-> ctx]))

-----------------------------------------------------------------------------
(* ResourceManifestBuilder helpers (build_tasks.rs 618-653, 736-747).       *)

resource_type_name(field) ==
    IF field.result_type = "Vector"
    THEN "Vec<" \o scalar_type_name(field.scalar_type) \o ">"
    ELSE field.type_name

RequiredResource(field_name, kind, element_type) ==
    [field_name |-> field_name, resource_type |-> kind, element_type |-> element_type]

(* required_resource that knows textures only.                              *)
required_resource_textures_only(field) ==
    IF field.tag = "Resource" /\ field.resource_shape = "Texture2D"
    THEN Some(RequiredResource(to_snake_case(field.field_name), "Texture", ""))
    ELSE None

required_resource(field) ==
    IF field.tag = "Resource"
    THEN IF field.resource_shape = "Texture2D"
         THEN Some(RequiredResource(to_snake_case(field.field_name), "Texture", ""))
         ELSE Some(RequiredResource(to_snake_case(field.field_name),
                                    "StructuredBuffer", resource_type_name(field)))
    ELSE None

RECURSIVE block_resources(_, _)
(* The loop of lines 208-212 over the block's own fields.                   *)
block_resources(fields, i) ==
    IF i > Len(fields) THEN <<>>
    ELSE LET req == required_resource(fields[i])
         IN (IF IsSome(req) THEN <<Unwrap(req)>> ELSE <<>>)
            \o block_resources(fields, i + 1)

(* "the default-added parameter block uniform buffer", lines 223-229.       *)
uniform_buffer_resource(parameter_block) ==
    RequiredResource(to_snake_case(parameter_block.parameter_name) \o "_buffer",
                     "UniformBuffer", parameter_block.type_name)

(* push_block_resources that pushes the uniform buffer before the block's   *)
(* texture and storage-buffer resources.                                    *)
push_uniform_buffer_first(resources, parameter_block) ==
    resources \o <<uniform_buffer_resource(parameter_block)>>
              \o block_resources(parameter_block.fields, 1)

(* What one iteration of the loop over global_parameters pushes to          *)
(* required_resources: lines 208-212, then lines 223-229.                   *)
push_block_resources(resources, parameter_block) ==
    resources \o block_resources(parameter_block.fields, 1)
              \o <<uniform_buffer_resource(parameter_block)>>

-----------------------------------------------------------------------------
(* EntryPointClassifier (build_tasks.rs 127-200).  An entry point parameter *)
(* is [tag |-> "Scalar", semantic |-> BOOLEAN] or [tag |-> "Struct",        *)
(* type_name, fields].                                                      *)

SemanticParameter == [tag |-> "Scalar", semantic |-> TRUE, type_name |-> "", fields |-> <<>>]
BoundParameter == [tag |-> "Scalar", semantic |-> FALSE, type_name |-> "", fields |-> <<>>]
StructParameter(type_name, fields) ==
    [tag |-> "Struct", semantic |-> FALSE, type_name |-> type_name, fields |-> fields]

(* has_vertex_struct that is satisfied by any parameter.                    *)
has_vertex_parameter(parameters) ==
    Len(parameters) > 0

has_vertex_struct(parameters) ==
    \E i \in 1..Len(parameters) : parameters[i].tag = "Struct"

(* initial_required_resources with an entry for the vertex count.           *)
initial_resources_with_vertex_count(parameters) ==
    IF has_vertex_struct(parameters)
    THEN <<RequiredResource("vertices", "VertexBuffer", ""),
           RequiredResource("indices", "IndexBuffer", "")>>
    ELSE <<RequiredResource("vertex_count", "VertexCountParameter", "")>>

initial_required_resources(parameters) ==
    IF has_vertex_struct(parameters)
    THEN <<RequiredResource("vertices", "VertexBuffer", ""),
           RequiredResource("indices", "IndexBuffer", "")>>
    ELSE <<>>

(* None is the todo!("field without vk format") arm.                        *)
vertex_format(type_name) ==
    CASE type_name = "glam::Vec3" -> Some("ash::vk::Format::R32G32B32_SFLOAT")
      [] type_name = "glam::Vec2" -> Some("ash::vk::Format::R32G32_SFLOAT")
      [] type_name = "u32" -> Some("ash::vk::Format::R32_UINT")
      [] OTHER -> None

(* attribute_descriptions that counts locations from 1.                     *)
attribute_descriptions_from_one(fields) ==
    [i \in 1..Len(fields) |->
        [field_name |-> to_snake_case(fields[i].field_name),
         format |-> vertex_format(fields[i].type_name),
         location |-> i]]

(* Lines 174-190; location is the 0-based index of enumerate().             *)
attribute_descriptions(fields) ==
    [i \in 1..Len(fields) |->
        [field_name |-> to_snake_case(fields[i].field_name),
         format |-> vertex_format(fields[i].type_name),
         location |-> i - 1]]

unsupported_format(fields) ==
    \E i \in 1..Len(fields) : ~IsSome(vertex_format(fields[i].type_name))

(* The Struct arm of the loop over the vertex entry point's parameters,     *)
(* lines 154-198, given sub, the gathered fields of the struct.             *)
vertex_struct_param(param, v, sub) ==
    IF sub.ctx.panicked
    THEN [v EXCEPT !.vertex_type_name = Some(param.type_name), !.ctx = sub.ctx]
    ELSE IF unsupported_format(sub.fields)
    THEN [v EXCEPT !.vertex_type_name = Some(param.type_name),
                   !.ctx = [sub.ctx EXCEPT !.panicked = TRUE]]
    ELSE [vertex_type_name |-> Some(param.type_name),
          vertex_impl_blocks |->
              Append(v.vertex_impl_blocks,
                     [type_name |-> param.type_name,
                      attribute_descriptions |-> attribute_descriptions(sub.fields)]),
          ctx |-> [sub.ctx EXCEPT !.struct_defs =
                      Append(@, GeneratedStructDefinition(param.type_name, sub.fields,
                                                          Some(Std140), None))]]

(* One iteration of the loop over the vertex entry point's parameters.      *)
vertex_param(param, v) ==
    IF v.ctx.panicked THEN v
    ELSE IF param.tag = "Scalar"
    THEN IF param.semantic THEN v
         ELSE [v EXCEPT !.ctx.panicked = TRUE]
    ELSE vertex_struct_param(param, v,
             gather_sub_fields(param.fields, 1,
                               [fields |-> <<>>, ctx |-> v.ctx], Some(Std140)))

RECURSIVE vertex_params_loop(_, _, _)
vertex_params_loop(parameters, i, v) ==
    IF i > Len(parameters) THEN v
    ELSE vertex_params_loop(parameters, i + 1, vertex_param(parameters[i], v))

(* GeneratedShaderImpl::draw_call, lines 350-357.                           *)
draw_call(type_name) ==
    IF IsSome(type_name) THEN "DrawIndexed" ELSE "DrawVertexCount"

(* resource_fields_of that puts each field before the ones already found.   *)
resource_fields_of_prepending(resources, kind) ==
    LET RECURSIVE go(_)
        go(i) == IF i > Len(resources) THEN <<>>
                 ELSE go(i + 1) \o (IF resources[i].resource_type = kind
                                    THEN <<resources[i].field_name>> ELSE <<>>)
    IN go(1)

(* The partition of lines 275-293.                                          *)
resource_fields_of(resources, kind) ==
    LET RECURSIVE go(_)
        go(i) == IF i > Len(resources) THEN <<>>
                 ELSE (IF resources[i].resource_type = kind
                       THEN <<resources[i].field_name>> ELSE <<>>) \o go(i + 1)
    IN go(1)

-----------------------------------------------------------------------------
(* The build: write_precompiled_shaders (25-85) drives                      *)
(* build_generated_source_file (123-322) once per shader.                   *)

Shader(source_file_name, vertex_parameters, global_parameters) ==
    [source_file_name |-> source_file_name,
     vertex_parameters |-> vertex_parameters,
     global_parameters |-> global_parameters]

ParameterBlock(parameter_name, type_name, fields) ==
    [parameter_name |-> parameter_name, type_name |-> type_name, fields |-> fields]

Ctx == [struct_defs |-> struct_defs, panicked |-> panicked,
        synthesized |-> synthesized, registrations |-> registrations]

(* unwind that lets the build go on after a panic.                          *)
unwind_caught(panic, next) == next

(* A panic in build_generated_source_file (called at line 58) unwinds out   *)
(* of write_precompiled_shaders: the loop over the shaders and the final    *)
(* loop over generated_source_files are not reached.                        *)
unwind(panic, next) == IF panic THEN "panicked" ELSE next

(* The registry a shader starts with, one that another shader has filled.   *)
struct_defs_of_previous_shader == struct_defs

(* `let mut struct_defs = vec![]`, line 124: every call of                  *)
(* build_generated_source_file starts with a registry of its own.           *)
fresh_struct_defs == <<>>

(* add_top_level_rust_modules, lines 87-120.                                *)
TopLevelFiles ==
    <<[relative_path |-> "generated/shader_atlas.rs"],
      [relative_path |-> "generated.rs"]>>

(* Lines 124-200: fresh struct_defs, the vertex-stage resources and the     *)
(* loop over the vertex entry point's parameters.                           *)
BuildBegin ==
    /\ pc = "begin"
    /\ shader_idx <= Len(shaders)
    /\ \E v \in {vertex_params_loop(shaders[shader_idx].vertex_parameters, 1,
                    [vertex_type_name |-> None, vertex_impl_blocks |-> <<>>,
                     ctx |-> [Ctx EXCEPT !.struct_defs = fresh_struct_defs]])} :
          /\ struct_defs' = v.ctx.struct_defs
          /\ panicked' = v.ctx.panicked
          /\ synthesized' = v.ctx.synthesized
          /\ registrations' = v.ctx.registrations
          /\ vertex_type_name' = v.vertex_type_name
          /\ vertex_impl_blocks' = v.vertex_impl_blocks
          /\ pc' = unwind(v.ctx.panicked, "blocks")
    /\ required_resources' =
           initial_required_resources(shaders[shader_idx].vertex_parameters)
    /\ block_idx' = 1
    /\ UNCHANGED <<shaders, shader_idx, generated_source_files, written_files>>
    /\ UNCHANGED <<arena_vars, app_vars>>

(* One iteration of the loop over global_parameters, lines 202-230.         *)
ProcessParameterBlock ==
    /\ pc = "blocks"
    /\ block_idx <= Len(shaders[shader_idx].global_parameters)
    /\ \E parameter_block \in {shaders[shader_idx].global_parameters[block_idx]} :
       \E r \in {generate_std140_struct_fields(parameter_block.fields, Ctx)} :
          /\ panicked' = r.ctx.panicked
          /\ synthesized' = r.ctx.synthesized
          /\ registrations' = r.ctx.registrations
          /\ pc' = unwind(r.ctx.panicked, "blocks")
          /\ IF r.ctx.panicked
             THEN /\ struct_defs' = r.ctx.struct_defs
                  /\ UNCHANGED required_resources
             ELSE /\ struct_defs' =
                        Append(r.ctx.struct_defs,
                               GeneratedStructDefinition(parameter_block.type_name,
                                   r.fields, Some(Std140), Some(r.expected_size)))
                  /\ required_resources' =
                        push_block_resources(required_resources, parameter_block)
    /\ block_idx' = block_idx + 1
    /\ UNCHANGED <<shaders, shader_idx, vertex_type_name, vertex_impl_blocks,
                   generated_source_files, written_files>>
    /\ UNCHANGED <<arena_vars, app_vars>>

(* Lines 232-322 and the rest of the per-shader loop body, 58-77.           *)
BuildFinish ==
    /\ pc = "blocks"
    /\ block_idx > Len(shaders[shader_idx].global_parameters)
    /\ LET shader == shaders[shader_idx]
           resources_struct ==
               GeneratedStructDefinition("Resources<'a>",
                   [i \in 1..Len(required_resources) |->
                       new_field(required_resources[i].field_name,
                                 required_resources[i].resource_type)],
                   None, None)
           file == [relative_path |-> "generated/shader_atlas/" \o shader.source_file_name,
                    struct_defs |-> Append(Reverse(struct_defs), resources_struct),
                    vertex_impl_blocks |-> vertex_impl_blocks,
                    required_resources |-> required_resources,
                    vertex_type_name |-> vertex_type_name,
                    draw_call |-> draw_call(vertex_type_name),
                    resources_texture_fields |->
                        resource_fields_of(required_resources, "Texture"),
                    resources_uniform_buffer_fields |->
                        resource_fields_of(required_resources, "UniformBuffer"),
                    resources_storage_buffer_fields |->
                        resource_fields_of(required_resources, "StructuredBuffer")]
       IN generated_source_files' = Append(generated_source_files, file)
    /\ shader_idx' = shader_idx + 1
    /\ pc' = IF shader_idx = Len(shaders) THEN "write" ELSE "begin"
    /\ UNCHANGED <<shaders, block_idx, struct_defs, required_resources,
                   vertex_type_name, vertex_impl_blocks, panicked, synthesized,
                   registrations, written_files>>
    /\ UNCHANGED <<arena_vars, app_vars>>

(* The final loop over generated_source_files, lines 80-84.                 *)
WriteGeneratedFiles ==
    /\ pc = "write"
    /\ written_files' = generated_source_files
    /\ pc' = "done"
    /\ UNCHANGED <<shaders, shader_idx, block_idx, struct_defs, required_resources,
                   vertex_type_name, vertex_impl_blocks, panicked, synthesized,
                   registrations, generated_source_files>>
    /\ UNCHANGED <<arena_vars, app_vars>>

Next == BuildBegin \/ ProcessParameterBlock \/ BuildFinish \/ WriteGeneratedFiles

(* StorageBufferStorage::new and PipelineStorage::new.                      *)
InitArenas ==
    /\ storage_buffers = <<>>
    /\ storage_buffer_handles = <<>>
    /\ pipelines = <<>>
    /\ pipeline_handles = <<>>
    /\ unwrap_panicked = FALSE

(* App::init, and run_loop about to enter its loop.                         *)
InitApp ==
    /\ run_loop_pc = "handle_events"
    /\ quit = FALSE
    /\ minimized = FALSE
    /\ iterations = 0
    /\ frames_drawn = 0
    /\ drain_gpu_calls = 0
    /\ run_loop_result = None

InitBuild ==
    /\ shader_idx = 1
    /\ pc = "begin"
    /\ block_idx = 1
    /\ struct_defs = <<>>
    /\ required_resources = <<>>
    /\ vertex_type_name = None
    /\ vertex_impl_blocks = <<>>
    /\ panicked = FALSE
    /\ synthesized = <<>>
    /\ registrations = <<>>
    /\ generated_source_files = TopLevelFiles
    /\ written_files = <<>>
    /\ InitArenas
    /\ InitApp

-----------------------------------------------------------------------------
(* Reflection inputs.  The reflector is external: it reports offset and     *)
(* size per bound field.  A family fixes which field shapes are drawn; the  *)
(* offset of a bound field is the end of the previous bound field plus a    *)
(* gap, so overlapping, adjacent and separated fields all occur.            *)

MaxNodes == 3

FieldNames ==
    <<"position", "scale", "lightPos", "sphereCount", "radius", "color", "center",
      "boxCount">>

ReflectedLeaf(kind, name, offset, rule) ==
    CASE kind = "f32" -> ScalarField(name, "Float32", UniformBinding(offset, 4))
      [] kind = "u32" -> ScalarField(name, "Uint32", UniformBinding(offset, 4))
      [] kind = "vec2" -> BoundVectorField(name, "Float32", 2, UniformBinding(offset, 8))
      [] kind = "vec3" -> BoundVectorField(name, "Float32", 3, UniformBinding(offset, 12))
      [] kind = "vec4" -> BoundVectorField(name, "Float32", 4, UniformBinding(offset, 16))
      [] kind = "mat2" -> MatrixField(name, "Float32", 2, 2,
                              UniformBinding(offset, IF rule = "Std140" THEN 32 ELSE 16))
      [] kind = "mat3" -> MatrixField(name, "Float32", 3, 3, UniformBinding(offset, 48))
      [] kind = "mat4" -> MatrixField(name, "Float32", 4, 4, UniformBinding(offset, 64))
      [] kind = "vec1" -> BoundVectorField(name, "Float32", 1, UniformBinding(offset, 4))
      [] kind = "uvec3" -> BoundVectorField(name, "Uint32", 3, UniformBinding(offset, 12))
      [] kind = "mat3x4" -> MatrixField(name, "Float32", 3, 4, UniformBinding(offset, 48))
      [] kind = "umat2" -> MatrixField(name, "Uint32", 2, 2,
                               UniformBinding(offset, IF rule = "Std140" THEN 32 ELSE 16))
      [] kind = "f32_slot" -> ScalarField(name, "Float32", OtherBinding)
      [] kind = "vec3_slot" -> BoundVectorField(name, "Float32", 3, OtherBinding)
      [] kind = "mat4_slot" -> MatrixField(name, "Float32", 4, 4, OtherBinding)

IsBound(field) == field.binding.tag = "Uniform"

BoundEnd(field) == field.binding.offset + field.binding.size

(* The end of the last bound field of a list, 0 when it has none.           *)
ReflectedEnd(fields) ==
    LET RECURSIVE go(_, _)
        go(i, end) == IF i > Len(fields) THEN end
                      ELSE go(i + 1, IF IsBound(fields[i]) THEN BoundEnd(fields[i]) ELSE end)
    IN go(1, 0)

(* The alignment the layout rules give a field: the table of section 4.1.   *)
RECURSIVE NativeAlignment(_, _)
NativeAlignment(field, rule) ==
    CASE field.tag = "Scalar" -> 4
      [] field.tag = "Vector" -> IF field.element_count = 2 THEN 8 ELSE 16
      [] field.tag = "Matrix" -> 16
      [] field.tag = "Struct" ->
           IF rule = "Std140" THEN 16
           ELSE SeqMax([i \in 1..Len(field.fields) |->
                           NativeAlignment(field.fields[i], rule)], 4)
      [] OTHER -> 0

RoundUp(n, a) == IF n % a = 0 THEN n ELSE n + (a - (n % a))

(* The size the reflector reports for a nested struct: the end of its last  *)
(* member rounded up to the struct's alignment under the rule.              *)
ReflectedStructSize(sub_fields, rule) ==
    RoundUp(ReflectedEnd(sub_fields),
            NativeAlignment(StructFieldOf("", "", sub_fields, NoBinding), rule))

(* A nested struct as the reflector reports it: at the next offset its      *)
(* alignment allows.                                                        *)
ReflectedStruct(name, type_name, sub_fields, prev_end, rule) ==
    LET unplaced == StructFieldOf(name, type_name, sub_fields, NoBinding)
    IN StructFieldOf(name, type_name, sub_fields,
                     UniformBinding(RoundUp(prev_end, NativeAlignment(unplaced, rule)),
                                    ReflectedStructSize(sub_fields, rule)))

(* The fields that report no offset: resources, pipeline builtins and a     *)
(* nested struct whose binding is a descriptor slot.                        *)
OtherField(kind, name) ==
    CASE kind = "Texture" -> TextureField(name)
      [] kind = "VectorBuffer" -> VectorBufferField(name, "Float32")
      [] kind = "SemanticVector" -> SemanticVectorField(name, "Uint32", 3)
      [] kind = "SlotStruct" -> StructFieldOf(name, "Slot", <<>>, OtherBinding)

(* The number of field nodes of a field tree.                               *)
RECURSIVE Nodes(_)
Nodes(fields) ==
    SeqSum([i \in 1..Len(fields) |-> 1 + Nodes(fields[i].fields)])

(* The field lists of at most `budget` nodes that start at position `pos`   *)
(* after a bound field ending at prev_end.  subs[b + 1] holds the member    *)
(* lists of at most b nodes a nested struct may have; elems[b + 1] those of *)
(* a storage-buffer element (empty below the parameter block).  others are  *)
(* the unbound kinds a parameter block may hold, member_others those a      *)
(* member list may hold.                                                    *)
RECURSIVE FieldLists(_, _, _, _, _, _, _)
FieldsAt(fam, budget, pos, prev_end, rule, subs, elems) ==
    IF budget < 1 THEN {}
    ELSE LET name == fam.names[pos]
         IN {ReflectedLeaf(l[1], name, prev_end + l[2], rule) :
                l \in {l \in fam.leaves : prev_end + l[2] >= 0}}
            \cup {ReflectedStruct(name, tn, sub, prev_end, rule) :
                    tn \in fam.nested_names, sub \in subs[budget]}
            \cup (IF Len(elems) > 0
                  THEN {StructBufferField(name, tn, sub) :
                            tn \in fam.element_names, sub \in elems[budget]}
                       \cup {OtherField(k, name) : k \in fam.others}
                  ELSE {OtherField(k, name) : k \in fam.member_others})

FieldLists(fam, budget, pos, prev_end, rule, subs, elems) ==
    {<<>>} \cup
    UNION {{<<f>> \o rest :
               rest \in FieldLists(fam, budget - 1 - Nodes(f.fields), pos + 1,
                                   IF IsBound(f) THEN BoundEnd(f) ELSE prev_end,
                                   rule, subs, elems)} :
           f \in FieldsAt(fam, budget, pos, prev_end, rule, subs, elems)}

(* Member lists by node budget: entry b + 1 holds the lists of at most b     *)
(* nodes, each entry built from the ones below it.  member_starts are the   *)
(* positions of the names a member list may start at, so two structs may   *)
(* differ in a field's name as well as in its type; names are the field     *)
(* names by position.                                                       *)
NoMembers == <<{<<>>}>>

Grow(fam, rule, table) ==
    Append(table,
           UNION {FieldLists(fam, Len(table), start, 0, rule, table, <<>>) :
                     start \in fam.member_starts})

RECURSIVE Members(_, _, _)
Members(fam, rule, budget) ==
    IF budget = 0 THEN NoMembers ELSE Grow(fam, rule, Members(fam, rule, budget - 1))

OneBlockShaders(blocks) ==
    {<<Shader("layout.shader.slang", <<>>,
              <<ParameterBlock("params", "Params", fields)>>)>> :
        fields \in blocks}

(* Init over a family: one shader with one parameter block of at most       *)
(* `budget` field nodes.                                                    *)
InitFamily(fam, budget) ==
    /\ \E subs \in {Members(fam, "Std140", budget)} :
       \E elems \in {Members(fam, "Std430", budget)} :
          shaders \in OneBlockShaders(
                          FieldLists(fam, budget, 1, 0, "Std140", subs, elems))
    /\ InitBuild

(* The layout family: every leaf shape, adjacent, separated and overlapping *)
(* offsets, a nested struct type and a storage-buffer element type.         *)
LayoutFamily ==
    [leaves |-> ({"f32", "vec2", "vec3", "vec4"} \X {0, 12}) \cup {<<"f32", -4>>},
     nested_names |-> {"Inner"},
     element_names |-> {"Sphere"},
     others |-> {"Texture"},
     member_others |-> {},
     member_starts |-> {1},
     names |-> FieldNames]

Init == InitFamily(LayoutFamily, MaxNodes)

Spec == Init /\ [][Next]_vars

(* The sharing family: deeper trees over one leaf shape, where one type     *)
(* name is used for nested structs and for storage-buffer elements alike.   *)
MaxSharedNodes == 5

SharedFamily ==
    [leaves |-> {<<"f32", 0>>},
     nested_names |-> {"Inner"},
     element_names |-> {"Inner"},
     others |-> {},
     member_others |-> {},
     member_starts |-> {1},
     names |-> FieldNames]

InitShared == InitFamily(SharedFamily, MaxSharedNodes)

SpecShared == InitShared /\ [][Next]_vars

(* The registry family: nested structs of one type name whose member lists  *)
(* differ in length, in a field's name or in a field's type.                *)
MaxRegistryNodes == 4

RegistryFamily ==
    [leaves |-> {<<"f32", 0>>, <<"vec2", 0>>},
     nested_names |-> {"Inner"},
     element_names |-> {},
     others |-> {},
     member_others |-> {},
     member_starts |-> {1, 2},
     names |-> FieldNames]

InitRegistry == InitFamily(RegistryFamily, MaxRegistryNodes)

SpecRegistry == InitRegistry /\ [][Next]_vars

-----------------------------------------------------------------------------
(* Reading a synthesized layout back.  An entry e of `synthesized` is one   *)
(* return of generate_std140/std430_struct_fields together with the field   *)
(* list it was called on.                                                   *)

MaxPaddingBytes == 16

(* The N of a field of type [u8; N]; 0 for any other field.                 *)
PaddingBytes(gen_field) ==
    LET hits == {n \in 1..MaxPaddingBytes :
                    gen_field.type_name = "[u8; " \o ToString(n) \o "]"}
    IN IF hits = {} THEN 0 ELSE CHOOSE n \in hits : TRUE

IsPadding(gen_field) == PaddingBytes(gen_field) > 0

RealFields(fields) == SelectSeq(fields, LAMBDA f : ~IsPadding(f))

PaddingSum(fields) == SeqSum([i \in 1..Len(fields) |-> PaddingBytes(fields[i])])

BoundFields(source_fields) == SelectSeq(source_fields, IsBound)

ReportedSizeSum(bound) == SeqSum([i \in 1..Len(bound) |-> bound[i].binding.size])

(* Reported offsets non-decreasing and non-overlapping in declaration order. *)
NonOverlapping(bound) ==
    \A i \in 1..(Len(bound) - 1) : bound[i + 1].binding.offset >= BoundEnd(bound[i])

(* The layout the reported offsets call for, before any trailing padding:   *)
(* per bound field, one padding of offset - running bytes when the offset   *)
(* is past the running offset, then the field.                              *)
RECURSIVE ExpectedShape(_, _, _)
ExpectedShape(bound, i, running) ==
    IF i > Len(bound) THEN <<>>
    ELSE (IF bound[i].binding.offset > running
          THEN <<[pad |-> bound[i].binding.offset - running, name |-> ""]>>
          ELSE <<>>)
         \o <<[pad |-> 0, name |-> to_snake_case(bound[i].field_name)]>>
         \o ExpectedShape(bound, i + 1, BoundEnd(bound[i]))

Shape(fields) ==
    [i \in 1..Len(fields) |->
        IF IsPadding(fields[i]) THEN [pad |-> PaddingBytes(fields[i]), name |-> ""]
        ELSE [pad |-> 0, name |-> fields[i].field_name]]

SizesAddUp(e) ==
    LET bound == BoundFields(e.source_fields)
    IN NonOverlapping(bound) =>
          /\ Len(RealFields(e.fields)) = Len(bound)
          /\ ReportedSizeSum(bound) + PaddingSum(e.fields) = e.expected_size

(* C1: for every parameter-block type and every storage-buffer element type *)
(* whose bound fields report non-decreasing, non-overlapping offsets, the   *)
(* reported sizes of the emitted real fields plus the byte counts of the    *)
(* emitted padding fields add up to the returned byte size.                 *)
C1_SizesAddUp ==
    \A i \in 1..Len(synthesized) : SizesAddUp(synthesized[i])

(* A storage element with two separated bound fields has been synthesized.  *)
C1_Witness ==
    \E i \in 1..Len(synthesized) :
        LET e == synthesized[i]
            bound == BoundFields(e.source_fields)
        IN /\ e.rule = "Std430"
           /\ Len(bound) = 2
           /\ bound[2].binding.offset > BoundEnd(bound[1])
           /\ PaddingSum(e.fields) > 0
           /\ Len(RealFields(e.fields)) = 2

PaddingAsReported(e) ==
    LET want == ExpectedShape(BoundFields(e.source_fields), 1, 0)
        got == Shape(e.fields)
    IN /\ Len(got) >= Len(want)
       /\ SubSeq(got, 1, Len(want)) = want

(* C2: a single padding field of (reported offset - running offset) bytes   *)
(* stands immediately before a bound field exactly when the field's         *)
(* reported offset is past the running offset, and none when they are       *)
(* equal; fields reported at [0,4) and [16,20) get exactly one 12-byte      *)
(* padding field between them.                                              *)
C2_PaddingBeforeField ==
    \A i \in 1..Len(synthesized) : PaddingAsReported(synthesized[i])

(* A parameter block with fields at [0,4) and [16,20) has been synthesized   *)
(* into field, 12 bytes of padding, field.                                  *)
C2_Witness ==
    \E i \in 1..Len(synthesized) :
        LET e == synthesized[i]
            bound == BoundFields(e.source_fields)
        IN /\ e.rule = "Std140"
           /\ Len(bound) = 2
           /\ bound[1].binding = UniformBinding(0, 4)
           /\ bound[2].binding = UniformBinding(16, 4)
           /\ SubSeq(Shape(e.fields), 1, 3) =
                 <<[pad |-> 0, name |-> "position"], [pad |-> 12, name |-> ""],
                   [pad |-> 0, name |-> "scale"]>>

UniformSize(e) ==
    LET end == ReflectedEnd(e.source_fields)
        want == ExpectedShape(BoundFields(e.source_fields), 1, 0)
    IN /\ e.struct_alignment = 16
       /\ e.expected_size % 16 = 0
       /\ e.expected_size >= end
       /\ e.expected_size - end < 16
       /\ IF e.expected_size > end
          THEN /\ Len(e.fields) = Len(want) + 1
               /\ PaddingBytes(e.fields[Len(e.fields)]) = e.expected_size - end
          ELSE Len(e.fields) = Len(want)

(* C3: a type synthesized under the Uniform rules has struct alignment 16   *)
(* whatever its fields, its byte size is the smallest multiple of 16 not    *)
(* below the end of its last bound field, and one trailing padding field    *)
(* is appended exactly when that rounding moves past the end.               *)
C3_UniformSizeRoundedTo16 ==
    \A i \in 1..Len(synthesized) :
        synthesized[i].rule = "Std140" => UniformSize(synthesized[i])

(* A parameter block ending off a 16-byte boundary got trailing padding,    *)
(* and one ending on a boundary (past 0) got none, in some synthesis.       *)
C3_Witness ==
    \E i \in 1..Len(synthesized) :
        LET e == synthesized[i]
        IN /\ e.rule = "Std140"
           /\ ReflectedEnd(e.source_fields) % 16 # 0
           /\ IsPadding(e.fields[Len(e.fields)])
           /\ e.expected_size = RoundUp(ReflectedEnd(e.source_fields), 16)

-----------------------------------------------------------------------------
(* The struct alignment the Storage rules give a list of bound fields: the  *)
(* largest native alignment of the fields, a nested struct counting with    *)
(* its own computed alignment, and at least 4.                              *)
OwnAlignment(bound) ==
    SeqMax([i \in 1..Len(bound) |-> NativeAlignment(bound[i], "Std430")], 4)

OnlyScalars(bound) ==
    \A i \in 1..Len(bound) : bound[i].tag = "Scalar" /\ bound[i].binding.size = 4

(* Scenario B: two f32 fields reported at [0,4) and [4,8).                  *)
IsScenarioB(bound) ==
    /\ Len(bound) = 2
    /\ \A i \in 1..2 : bound[i].tag = "Scalar" /\ bound[i].scalar_type = "Float32"
    /\ bound[1].binding = UniformBinding(0, 4)
    /\ bound[2].binding = UniformBinding(4, 4)

StorageSize(e) ==
    LET bound == BoundFields(e.source_fields)
    IN /\ e.struct_alignment > 0
       /\ e.expected_size % e.struct_alignment = 0
       /\ e.struct_alignment = OwnAlignment(bound)
       /\ OnlyScalars(bound) => e.struct_alignment = 4
       /\ IsScenarioB(bound) =>
             /\ e.struct_alignment = 4
             /\ e.expected_size = 8
             /\ Len(e.fields) = 2
             /\ PaddingSum(e.fields) = 0

(* C4: a type synthesized under the Storage rules has a byte size that is   *)
(* a multiple of its struct alignment, and that alignment is the largest    *)
(* native alignment of its own fields, at least 4: 4 when all fields are    *)
(* 4-byte scalars, so {a: f32, b: f32} gets alignment 4, size 8 and no      *)
(* padding.                                                                 *)
C4_StorageSizeAndAlignment ==
    \A i \in 1..Len(synthesized) :
        synthesized[i].rule = "Std430" => StorageSize(synthesized[i])

(* Scenario B has been synthesized as a storage element.                    *)
C4_Witness ==
    \E i \in 1..Len(synthesized) :
        /\ synthesized[i].rule = "Std430"
        /\ IsScenarioB(BoundFields(synthesized[i].source_fields))
        /\ synthesized[i].expected_size = 8

HasNestedStruct(bound) == \E i \in 1..Len(bound) : bound[i].tag = "Struct"

(* C5: under the Storage rules a nested-struct field counts with its own    *)
(* computed struct alignment, not 16, in the containing type's alignment:   *)
(* a storage element of a nested struct of 4-byte scalars and of 4-byte     *)
(* scalars has struct alignment 4.                                          *)
C5_NestedContributesOwnAlignment ==
    \A i \in 1..Len(synthesized) :
        LET e == synthesized[i]
            bound == BoundFields(e.source_fields)
        IN (e.rule = "Std430" /\ HasNestedStruct(bound))
              => e.struct_alignment = OwnAlignment(bound)

(* A storage element holding a nested struct of one f32 has been            *)
(* synthesized with struct alignment 16.                                    *)
C5_Witness ==
    \E i \in 1..Len(synthesized) :
        LET e == synthesized[i]
            bound == BoundFields(e.source_fields)
        IN /\ e.rule = "Std430"
           /\ Len(bound) = 1
           /\ bound[1].tag = "Struct"
           /\ Len(bound[1].fields) = 1
           /\ bound[1].fields[1].tag = "Scalar"
           /\ OwnAlignment(bound) = 4
           /\ e.struct_alignment = 16
           /\ e.expected_size = 16

-----------------------------------------------------------------------------
(* Scenario A: the Uniform block {position: vec3, scale: f32} as the        *)
(* reflector reports it, position at [0,12) and scale at [12,16).           *)
IsScenarioA(source_fields) ==
    /\ Len(source_fields) = 2
    /\ source_fields[1] = BoundVectorField("position", "Float32", 3, UniformBinding(0, 12))
    /\ source_fields[2] = ScalarField("scale", "Float32", UniformBinding(12, 4))

(* C9 as amended: the Uniform block {position: vec3, scale: f32} yields     *)
(* the real fields position (glam::Vec3, 12 bytes) and scale (f32, 4        *)
(* bytes) with no padding between them, no trailing padding, and byte size  *)
(* 16.                                                                      *)
C9_ScenarioA_Packed ==
    \A i \in 1..Len(synthesized) :
        LET e == synthesized[i]
        IN (e.rule = "Std140" /\ IsScenarioA(e.source_fields))
              => /\ e.fields = <<new_field("position", "glam::Vec3"),
                                 new_field("scale", "f32")>>
                 /\ e.source_fields[1].binding.size = 12
                 /\ e.source_fields[2].binding.size = 4
                 /\ e.expected_size = 16

(* Scenario A has been synthesized.                                         *)
C9_Witness ==
    \E i \in 1..Len(synthesized) :
        /\ synthesized[i].rule = "Std140"
        /\ IsScenarioA(synthesized[i].source_fields)
        /\ Len(synthesized[i].fields) = 2

(* C9 as stated: the Uniform block {position: vec3, scale: f32} yields the  *)
(* real fields position and scale with no padding between them, one         *)
(* trailing padding field, and byte size 32.                                *)
C9_ScenarioA_Original ==
    \A i \in 1..Len(synthesized) :
        LET e == synthesized[i]
        IN (e.rule = "Std140" /\ IsScenarioA(e.source_fields))
              => /\ Len(e.fields) = 3
                 /\ Shape(e.fields)[1] = [pad |-> 0, name |-> "position"]
                 /\ Shape(e.fields)[2] = [pad |-> 0, name |-> "scale"]
                 /\ IsPadding(e.fields[3])
                 /\ e.expected_size = 32

-----------------------------------------------------------------------------
(* The host layout of an emitted definition by the C layout rules: every    *)
(* field starts at the next multiple of its type's alignment, the struct's  *)
(* alignment is the largest of its fields' and of its repr(C, align(N))     *)
(* annotation, and its size is its end rounded up to its alignment.         *)

(* <<size, alignment>> of the leaf host types; <<0, 0>> for any other name. *)
HostLeaf(type_name) ==
    CASE type_name \in {"f32", "u32", "i32"} -> <<4, 4>>
      [] type_name = "glam::Vec2" -> <<8, 4>>
      [] type_name = "glam::Vec3" -> <<12, 4>>
      [] type_name = "glam::Vec4" -> <<16, 16>>
      [] type_name = "glam::Mat2" -> <<16, 16>>
      [] type_name = "glam::Mat3" -> <<36, 4>>
      [] type_name = "glam::Mat4" -> <<64, 16>>
      [] OTHER -> <<0, 0>>

RECURSIVE HostLayout(_, _)
HostType(type_name, defs) ==
    IF PaddingBytes([type_name |-> type_name]) > 0
    THEN [size |-> PaddingBytes([type_name |-> type_name]), align |-> 1]
    ELSE IF HostLeaf(type_name)[2] > 0
    THEN [size |-> HostLeaf(type_name)[1], align |-> HostLeaf(type_name)[2]]
    ELSE IF IsSome(find_struct_def(defs, type_name))
    THEN LET layout == HostLayout(Unwrap(find_struct_def(defs, type_name)), defs)
         IN [size |-> layout.size, align |-> layout.align]
    ELSE [size |-> 0, align |-> 1]

(* [size, align, starts]: starts[i] is the host offset of the i-th field.   *)
HostLayout(def, defs) ==
    LET types == [i \in 1..Len(def.fields) |-> HostType(def.fields[i].type_name, defs)]
        RECURSIVE place(_, _, _)
        place(i, end, starts) ==
            IF i > Len(types) THEN [end |-> end, starts |-> starts]
            ELSE place(i + 1, RoundUp(end, types[i].align) + types[i].size,
                       Append(starts, RoundUp(end, types[i].align)))
        placed == place(1, 0, <<>>)
        align == SeqMax([i \in 1..Len(types) |-> types[i].align],
                        IF IsSome(def.alignment)
                        THEN annotation_align(Unwrap(def.alignment)) ELSE 1)
    IN [size |-> RoundUp(placed.end, align), align |-> align,
        starts |-> placed.starts]

(* A field tree as a conforming reflector reports it: every bound field     *)
(* starts at the first multiple of its alignment at or after the end of     *)
(* the bound field before it.                                               *)
RECURSIVE Faithful(_, _)
RECURSIVE FaithfulFrom(_, _, _, _)
FaithfulFrom(fields, i, prev_end, rule) ==
    IF i > Len(fields) THEN TRUE
    ELSE /\ IsBound(fields[i]) =>
               fields[i].binding.offset =
                   RoundUp(prev_end, NativeAlignment(fields[i], rule))
         /\ fields[i].tag = "Struct" => Faithful(fields[i].fields, rule)
         /\ fields[i].tag = "Resource" => Faithful(fields[i].fields, "Std430")
         /\ FaithfulFrom(fields, i + 1,
                         IF IsBound(fields[i]) THEN BoundEnd(fields[i]) ELSE prev_end,
                         rule)

Faithful(fields, rule) == FaithfulFrom(fields, 1, 0, rule)

FaithfulShader(shader) ==
    \A b \in 1..Len(shader.global_parameters) :
        Faithful(shader.global_parameters[b].fields, "Std140")

(* The generated files of shader modules, each with the shader it is from.  *)
ShaderFiles ==
    {[file |-> generated_source_files[k], shader |-> shaders[k - Len(TopLevelFiles)]] :
        k \in (Len(TopLevelFiles) + 1)..Len(generated_source_files)}

FreshCtx ==
    [struct_defs |-> <<>>, panicked |-> FALSE, synthesized |-> <<>>,
     registrations |-> <<>>]

(* The nested-struct fields a parameter block owns directly or through the  *)
(* element type of one of its storage buffers, each with its rule set.      *)
NestedStructsOf(fields) ==
    {[field |-> fields[i], rule |-> "Std140"] :
        i \in {i \in 1..Len(fields) : fields[i].tag = "Struct"}}
    \cup UNION {{[field |-> fields[i].fields[j], rule |-> "Std430"] :
                    j \in {j \in 1..Len(fields[i].fields) :
                              fields[i].fields[j].tag = "Struct"}} :
                i \in {i \in 1..Len(fields) : fields[i].tag = "Resource"}}

(* The definition registered for n is the one a top-level synthesis of the  *)
(* same fields under the same rule set returns.                             *)
FullySynthesized(n, defs) ==
    LET def == find_struct_def(defs, n.field.type_name)
        top == IF n.rule = "Std140"
               THEN generate_std140_struct_fields(n.field.fields, FreshCtx)
               ELSE generate_std430_struct_fields(n.field.fields, FreshCtx)
    IN /\ IsSome(def)
       /\ Unwrap(def).fields = top.fields
       /\ Unwrap(def).expected_size = Some(top.expected_size)
       /\ SizesAddUp([source_fields |-> n.field.fields,
                      fields |-> Unwrap(def).fields,
                      expected_size |-> top.expected_size])

(* C6: the type registered for a nested-struct field is a fully             *)
(* synthesized type under the containing rule set: a padding field for      *)
(* every gap between its sub-fields' reported offsets, trailing padding up  *)
(* to its struct alignment and a byte size, exactly as a top-level type     *)
(* with the same fields has.                                                *)
C6_NestedTypeFullySynthesized ==
    \A sf \in ShaderFiles :
        \A b \in 1..Len(sf.shader.global_parameters) :
            \A n \in NestedStructsOf(sf.shader.global_parameters[b].fields) :
                FullySynthesized(n, sf.file.struct_defs)

(* A file has been generated for a block whose nested struct              *)
(* {position: f32 at 0, scale: vec3 at 16} was registered as the two fields *)
(* alone, with no padding and no byte size.                                 *)
C6_Witness ==
    \E sf \in ShaderFiles :
        \E n \in NestedStructsOf(sf.shader.global_parameters[1].fields) :
            /\ n.rule = "Std140"
            /\ FaithfulShader(sf.shader)
            /\ Len(n.field.fields) = 2
            /\ n.field.fields[1].binding = UniformBinding(0, 4)
            /\ n.field.fields[2].binding = UniformBinding(16, 12)
            /\ Unwrap(find_struct_def(sf.file.struct_defs, n.field.type_name)).fields =
                  <<new_field("position", "f32"), new_field("scale", "glam::Vec3")>>
            /\ Unwrap(find_struct_def(sf.file.struct_defs, n.field.type_name)).expected_size
                  = None

HostSizeAsExpected(defs) ==
    \A j \in 1..Len(defs) :
        IsSome(defs[j].expected_size)
            => HostLayout(defs[j], defs).size = Unwrap(defs[j].expected_size)

(* C8: for every generated type that carries an expected byte size, the     *)
(* size of the emitted host struct by the C layout rules (from its field    *)
(* types and its repr(C, align(N)) annotation) equals that expected size.   *)
C8_HostSizeMatchesExpected ==
    \A sf \in ShaderFiles :
        FaithfulShader(sf.shader) => HostSizeAsExpected(sf.file.struct_defs)

(* A file has been generated, from a conforming reflection, whose           *)
(* parameter-block type expects 32 bytes and takes 16 in host layout.       *)
C8_Witness ==
    \E sf \in ShaderFiles :
        /\ FaithfulShader(sf.shader)
        /\ \E j \in 1..Len(sf.file.struct_defs) :
              /\ sf.file.struct_defs[j].type_name = "Params"
              /\ sf.file.struct_defs[j].expected_size = Some(32)
              /\ HostLayout(sf.file.struct_defs[j], sf.file.struct_defs).size = 16

(* In the emitted definition def, field i of a nested struct type starts    *)
(* at a multiple of 16, its type is 16-aligned, and the field after it      *)
(* starts no earlier than i's start plus i's size rounded up to 16.         *)
NestedTakes16(def, i, defs) ==
    LET layout == HostLayout(def, defs)
        nested == HostType(def.fields[i].type_name, defs)
    IN /\ nested.align % 16 = 0
       /\ layout.starts[i] % 16 = 0
       /\ i < Len(def.fields) =>
             layout.starts[i + 1] >= layout.starts[i] + RoundUp(nested.size, 16)

(* C7: under the Uniform rules every nested-struct field contributes        *)
(* 16-byte alignment and a size rounded up to a multiple of 16 to its       *)
(* parent's layout, whatever the nested type's own packing: the field       *)
(* after a nested struct never starts before the nested struct's start      *)
(* plus its size rounded up to 16.                                          *)
C7_NestedStructTakes16 ==
    \A sf \in ShaderFiles :
        FaithfulShader(sf.shader) =>
            \A b \in 1..Len(sf.shader.global_parameters) :
                LET block == sf.shader.global_parameters[b]
                    def == Unwrap(find_struct_def(sf.file.struct_defs, block.type_name))
                    nested_names == {block.fields[i].type_name :
                                        i \in {i \in 1..Len(block.fields) :
                                                  block.fields[i].tag = "Struct"}}
                IN \A i \in 1..Len(def.fields) :
                      def.fields[i].type_name \in nested_names
                          => NestedTakes16(def, i, sf.file.struct_defs)

(* A file has been generated for a block that holds a storage buffer of     *)
(* Inner, then a nested Inner, then an f32: Inner kept its align(4)         *)
(* definition and the f32 starts at host offset 4.                          *)
C7_Witness ==
    \E sf \in ShaderFiles :
        LET block == sf.shader.global_parameters[1]
            defs == sf.file.struct_defs
            def == Unwrap(find_struct_def(defs, block.type_name))
        IN /\ FaithfulShader(sf.shader)
           /\ Len(block.fields) = 3
           /\ block.fields[1].tag = "Resource"
           /\ block.fields[2].tag = "Struct"
           /\ block.fields[2].binding = UniformBinding(0, 16)
           /\ block.fields[3].binding = UniformBinding(16, 4)
           /\ Unwrap(find_struct_def(defs, "Inner")).alignment = Some(Std430(4))
           /\ HostLayout(def, defs).starts[2] = 4

-----------------------------------------------------------------------------
(* Two field sequences differ: in length, or in a field's name or type at   *)
(* some position.                                                           *)
Differs(a, b) ==
    \/ Len(a) # Len(b)
    \/ \E i \in 1..Len(a) :
          a[i].field_name # b[i].field_name \/ a[i].type_name # b[i].type_name

(* The registration r offered a candidate whose name was registered with a  *)
(* different field sequence.                                                *)
IsConflict(r) ==
    \E i \in 1..Len(r.registry) :
        /\ r.registry[i].type_name = r.candidate.type_name
        /\ \A j \in 1..(i - 1) : r.registry[j].type_name # r.candidate.type_name
        /\ Differs(r.registry[i].fields, r.candidate.fields)

(* C10: registering a candidate whose name is registered with a different   *)
(* field sequence fails fatally: it is the last thing the build does, the   *)
(* candidate is not added and no file is generated.                         *)
C10_ConflictIsFatal ==
    \A k \in 1..Len(registrations) :
        IsConflict(registrations[k])
            => /\ k = Len(registrations)
               /\ panicked
               /\ pc = "panicked"
               /\ struct_defs = registrations[k].registry
               /\ generated_source_files = TopLevelFiles
               /\ written_files = <<>>

(* A candidate of the registered length that differs in a field's name or   *)
(* type has been offered.                                                   *)
C10_Witness ==
    \E k \in 1..Len(registrations) :
        /\ IsConflict(registrations[k])
        /\ Len(registrations[k].candidate.fields) > 0
        /\ \E i \in 1..Len(registrations[k].registry) :
              /\ registrations[k].registry[i].type_name =
                    registrations[k].candidate.type_name
              /\ Len(registrations[k].registry[i].fields) =
                    Len(registrations[k].candidate.fields)
        /\ panicked

------------------------------------------------------------------------------
(* The registration r offered a candidate whose name was registered with    *)
(* the same field names and types in the same order.                        *)
IsIdentical(r) ==
    \E i \in 1..Len(r.registry) :
        /\ r.registry[i].type_name = r.candidate.type_name
        /\ \A j \in 1..(i - 1) : r.registry[j].type_name # r.candidate.type_name
        /\ ~Differs(r.registry[i].fields, r.candidate.fields)

(* How many definitions of the registry carry the name.                     *)
TimesRegistered(defs, type_name) ==
    Cardinality({i \in 1..Len(defs) : defs[i].type_name = type_name})

(* C11: registering a candidate identical (same name, same field names and  *)
(* types in the same order) to a registered one does not fail and leaves    *)
(* the registry as it was, so the name stays registered exactly once.       *)
C11_IdenticalRegistrationIsNoOp ==
    \A k \in 1..Len(registrations) :
        IsIdentical(registrations[k])
            => /\ registrations[k].outcome # "conflict"
               /\ registrations[k].result = registrations[k].registry
               /\ TimesRegistered(registrations[k].result,
                                  registrations[k].candidate.type_name) = 1

(* An identical candidate with at least one field has been offered and the  *)
(* build went on to generate the shader's file.                             *)
C11_Witness ==
    /\ \E k \in 1..Len(registrations) :
          /\ IsIdentical(registrations[k])
          /\ Len(registrations[k].candidate.fields) > 0
    /\ ~panicked
    /\ Len(generated_source_files) > Len(TopLevelFiles)
    /\ \A i \in 1..Len(struct_defs) :
          TimesRegistered(struct_defs, struct_defs[i].type_name) = 1

-----------------------------------------------------------------------------
(* The atlas family: a build over several shaders, each with one parameter  *)
(* block of storage buffers that hold a "Sphere" element type, so two       *)
(* shaders may declare the type with the same or with different members.    *)
MaxAtlasNodes == 3

AtlasFieldNames ==
    <<"center", "radius", "color", "count", "spheres", "boxes", "lights", "grid",
      "cells">>

AtlasFamily ==
    [leaves |-> {<<"f32", 0>>, <<"vec3", 0>>},
     nested_names |-> {},
     element_names |-> {"Sphere"},
     others |-> {},
     member_others |-> {},
     member_starts |-> {1},
     names |-> AtlasFieldNames]

(* slang_file_names, lines 34-49: the shader files in discovery order.      *)
ShaderFileNames == <<"first.shader.slang", "second.shader.slang">>

(* Builds over the first n shader files, each with one block of `blocks`.   *)
AtlasShaders(blocks) ==
    UNION {{[i \in 1..n |-> Shader(ShaderFileNames[i], <<>>,
                                   <<ParameterBlock("params", "Params", choice[i])>>)] :
               choice \in [1..n -> blocks]} :
           n \in 1..Len(ShaderFileNames)}

InitAtlas ==
    /\ \E subs \in {Members(AtlasFamily, "Std140", MaxAtlasNodes)} :
       \E elems \in {Members(AtlasFamily, "Std430", MaxAtlasNodes)} :
          shaders \in AtlasShaders(
                          FieldLists([AtlasFamily EXCEPT !.leaves = {}],
                                     MaxAtlasNodes, 5, 0, "Std140", subs, elems))
    /\ InitBuild

SpecAtlas == InitAtlas /\ [][Next]_vars

-----------------------------------------------------------------------------
(* The storage-buffer element types a shader's parameter blocks declare.    *)
ElementTypesOf(shader) ==
    UNION {{[type_name |-> block_fields[i].type_name, fields |-> block_fields[i].fields] :
               i \in {i \in 1..Len(block_fields) :
                         /\ block_fields[i].tag = "Resource"
                         /\ block_fields[i].result_type = "Struct"}} :
           block_fields \in {shader.global_parameters[b].fields :
                                b \in 1..Len(shader.global_parameters)}}

(* Scenario D's type: Sphere {center: vec3, radius: f32}.                   *)
IsScenarioDSphere(t) ==
    /\ t.type_name = "Sphere"
    /\ Len(t.fields) = 2
    /\ t.fields[1].field_name = "center" /\ t.fields[1].tag = "Vector"
    /\ t.fields[1].element_count = 3
    /\ t.fields[2].field_name = "radius" /\ t.fields[2].tag = "Scalar"
    /\ t.fields[2].scalar_type = "Float32"

(* The host fields an element type's declared members stand for.            *)
HostFieldsOf(t) ==
    generate_std430_struct_fields(t.fields, FreshCtx).fields

(* How many of the build's generated files define the type name.            *)
FilesDefining(type_name) ==
    Cardinality({sf \in ShaderFiles :
                    TimesRegistered(sf.file.struct_defs, type_name) > 0})

(* The definitions a one-block shader's file holds when the shader is the   *)
(* only one of the build.                                                   *)
BuiltAlone(shader, r) ==
    Reverse(Append(r.ctx.struct_defs,
                   GeneratedStructDefinition(shader.global_parameters[1].type_name,
                       r.fields, Some(Std140), Some(r.expected_size))))

-----------------------------------------------------------------------------
(* The manifest family: one shader with up to two parameter blocks whose    *)
(* fields mix bound fields, textures and storage buffers, behind a vertex   *)
(* entry point with or without a struct parameter.                          *)
MaxManifestNodes == 2

ManifestFieldNames ==
    <<"albedo", "spheres", "time", "normals", "boxes", "scale", "depth", "lights",
      "count", "noise">>

ManifestFamily ==
    [leaves |-> {<<"f32", 0>>},
     nested_names |-> {},
     element_names |-> {"Sphere"},
     others |-> {"Texture", "VectorBuffer"},
     member_others |-> {},
     member_starts |-> {3},
     names |-> ManifestFieldNames]

(* global_parameters in declaration order: parameter name and element type. *)
BlockNames ==
    <<[parameter_name |-> "params", type_name |-> "Params"],
      [parameter_name |-> "lights", type_name |-> "Lights"]>>

(* A per-vertex struct parameter of one 3-vector.                           *)
PositionVertex ==
    StructParameter("Vertex",
        <<BoundVectorField("position", "Float32", 3, OtherBinding)>>)

ManifestVertexParameters ==
    {<<>>, <<SemanticParameter>>, <<PositionVertex>>, <<SemanticParameter, PositionVertex>>}

(* The lists of the first n parameter blocks, block b drawing its fields    *)
(* from blocks[b].                                                          *)
BlockLists(blocks) ==
    UNION {{[b \in 1..n |-> ParameterBlock(BlockNames[b].parameter_name,
                                           BlockNames[b].type_name, choice[b])] :
               choice \in {c \in [1..n -> UNION {blocks[b] : b \in 1..n}] :
                              \A b \in 1..n : c[b] \in blocks[b]}} :
           n \in 0..Len(BlockNames)}

ManifestShaders(vertex_parameters, blocks) ==
    {<<Shader("manifest.shader.slang", vp, bl)>> :
        vp \in vertex_parameters, bl \in BlockLists(blocks)}

InitManifest ==
    /\ \E subs \in {Members(ManifestFamily, "Std140", MaxManifestNodes)} :
       \E elems \in {Members(ManifestFamily, "Std430", MaxManifestNodes)} :
          shaders \in ManifestShaders(ManifestVertexParameters,
                          [b \in 1..Len(BlockNames) |->
                              FieldLists(ManifestFamily, MaxManifestNodes,
                                         1 + (b - 1) * (MaxManifestNodes + 1), 0,
                                         "Std140", subs, elems)])
    /\ InitBuild

SpecManifest == InitManifest /\ [][Next]_vars

-----------------------------------------------------------------------------
(* Reading a manifest back.  The manifest of a generated file is its        *)
(* required_resources; its block part is the tail the parameter blocks      *)
(* account for, one segment per block: the block's uniform buffer and one   *)
(* entry per Resource field.                                                *)
IsResource(field) == field.tag = "Resource"

EntryKind(field) ==
    IF field.resource_shape = "Texture2D" THEN "Texture" ELSE "StructuredBuffer"

Brief(entry) == [field_name |-> entry.field_name, resource_type |-> entry.resource_type]

Briefs(entries) == [i \in 1..Len(entries) |-> Brief(entries[i])]

(* The Texture/StorageBuffer entries a block's Resource fields call for,    *)
(* in field declaration order.                                              *)
ResourceEntriesOf(fields) ==
    LET resources == SelectSeq(fields, IsResource)
    IN [i \in 1..Len(resources) |->
           [field_name |-> to_snake_case(resources[i].field_name),
            resource_type |-> EntryKind(resources[i])]]

UniformBufferEntryOf(block) ==
    [field_name |-> to_snake_case(block.parameter_name) \o "_buffer",
     resource_type |-> "UniformBuffer"]

SegmentLength(block) == 1 + Len(SelectSeq(block.fields, IsResource))

BlockPartLength(blocks) ==
    SeqSum([b \in 1..Len(blocks) |-> SegmentLength(blocks[b])])

VertexStagePart(manifest, blocks) ==
    SubSeq(manifest, 1, Len(manifest) - BlockPartLength(blocks))

(* The entries of the manifest that block b accounts for.                   *)
Segment(manifest, blocks, b) ==
    LET start == Len(manifest) - BlockPartLength(blocks)
                 + BlockPartLength(SubSeq(blocks, 1, b - 1))
    IN SubSeq(manifest, start + 1, start + SegmentLength(blocks[b]))

IsUniformBufferEntry(entry) == entry.resource_type = "UniformBuffer"

IsBlockResourceEntry(entry) == entry.resource_type \in {"Texture", "StructuredBuffer"}

ManifestInOrder(manifest, blocks) ==
    /\ Len(manifest) >= BlockPartLength(blocks)
    /\ \A i \in 1..Len(VertexStagePart(manifest, blocks)) :
          /\ ~IsUniformBufferEntry(manifest[i])
          /\ ~IsBlockResourceEntry(manifest[i])
    /\ \A b \in 1..Len(blocks) :
          /\ Briefs(SelectSeq(Segment(manifest, blocks, b), IsBlockResourceEntry))
                = ResourceEntriesOf(blocks[b].fields)
          /\ Briefs(SelectSeq(Segment(manifest, blocks, b), IsUniformBufferEntry))
                = <<UniformBufferEntryOf(blocks[b])>>

(* C13: the manifest of a shader is its vertex-stage resources followed by  *)
(* the resources of each parameter block, blocks in declared order, and     *)
(* within a block the Texture/StorageBuffer entries of its Resource fields  *)
(* in field declaration order.                                              *)
C13_ManifestOrder ==
    \A sf \in ShaderFiles :
        ManifestInOrder(sf.file.required_resources, sf.shader.global_parameters)

(* A shader with a vertex struct and two blocks, one of them with two       *)
(* Resource fields of different kinds, has been built.                      *)
C13_Witness ==
    \E sf \in ShaderFiles :
        /\ has_vertex_struct(sf.shader.vertex_parameters)
        /\ Len(sf.shader.global_parameters) = 2
        /\ \E b \in 1..2 :
              LET entries == ResourceEntriesOf(sf.shader.global_parameters[b].fields)
              IN /\ Len(entries) = 2
                 /\ entries[1].resource_type # entries[2].resource_type
        /\ \A b \in 1..2 :
              Len(ResourceEntriesOf(sf.shader.global_parameters[b].fields)) > 0

(* C14 as stated: for every parameter block, the UniformBuffer entry comes  *)
(* first and the entries of the block's Resource fields follow it.          *)
C14_UniformBufferFirst_Original ==
    \A sf \in ShaderFiles : \A b \in 1..Len(sf.shader.global_parameters) :
        Briefs(Segment(sf.file.required_resources, sf.shader.global_parameters, b))
            = <<UniformBufferEntryOf(sf.shader.global_parameters[b])>>
              \o ResourceEntriesOf(sf.shader.global_parameters[b].fields)

(* C14: for every parameter block, the Texture/StorageBuffer entries of the *)
(* block's Resource fields come first, in field order, and the block's      *)
(* UniformBuffer(element_type) entry follows them.                          *)
C14_UniformBufferLast ==
    \A sf \in ShaderFiles : \A b \in 1..Len(sf.shader.global_parameters) :
        LET segment == Segment(sf.file.required_resources,
                               sf.shader.global_parameters, b)
        IN /\ Briefs(segment)
                = ResourceEntriesOf(sf.shader.global_parameters[b].fields)
                  \o <<UniformBufferEntryOf(sf.shader.global_parameters[b])>>
           /\ segment[Len(segment)].element_type
                = sf.shader.global_parameters[b].type_name

(* The shape of koch_curve: a block with one texture has been built.        *)
C14_Witness ==
    \E sf \in ShaderFiles :
        /\ Len(sf.shader.global_parameters) = 1
        /\ ResourceEntriesOf(sf.shader.global_parameters[1].fields)
              = <<[field_name |-> "albedo", resource_type |-> "Texture"]>>
        /\ Briefs(sf.file.required_resources)
              = <<[field_name |-> "albedo", resource_type |-> "Texture"],
                  [field_name |-> "params_buffer", resource_type |-> "UniformBuffer"]>>

-----------------------------------------------------------------------------
(* The vertex family: vertex entry points with scalar parameters and with a *)
(* per-vertex struct of up to MaxVertexFields fields of every shape, in     *)
(* front of no parameter block or one.                                      *)
MaxVertexFields == 2

VertexFieldNames == <<"position", "uv", "color", "normal", "tangent">>

VertexFieldKinds == {"vec3", "vec2", "u32", "f32", "vec4", "semantic"}

(* A field of a per-vertex struct: a varying input, or a pipeline builtin.  *)
VertexField(kind, name) ==
    CASE kind = "vec3" -> BoundVectorField(name, "Float32", 3, OtherBinding)
      [] kind = "vec2" -> BoundVectorField(name, "Float32", 2, OtherBinding)
      [] kind = "vec4" -> BoundVectorField(name, "Float32", 4, OtherBinding)
      [] kind = "u32" -> ScalarField(name, "Uint32", OtherBinding)
      [] kind = "f32" -> ScalarField(name, "Float32", OtherBinding)
      [] kind = "semantic" -> SemanticVectorField(name, "Float32", 4)

VertexStructs ==
    UNION {{StructParameter("Vertex",
                [i \in 1..n |-> VertexField(kinds[i], VertexFieldNames[i])]) :
               kinds \in [1..n -> VertexFieldKinds]} :
           n \in 0..MaxVertexFields}

VertexParameterLists ==
    {<<>>, <<SemanticParameter>>, <<BoundParameter>>}
    \cup UNION {{<<s>>, <<SemanticParameter, s>>, <<s, SemanticParameter>>} :
                   s \in VertexStructs}

VertexBlockLists ==
    {<<>>,
     <<ParameterBlock("params", "Params",
           <<TextureField("albedo"),
             ScalarField("time", "Float32", UniformBinding(0, 4))>>)>>}

InitVertex ==
    /\ shaders \in {<<Shader("vertex.shader.slang", vp, bl)>> :
                       vp \in VertexParameterLists, bl \in VertexBlockLists}
    /\ InitBuild

SpecVertex == InitVertex /\ [][Next]_vars

-----------------------------------------------------------------------------
(* Reading the entry point classification back from a generated file.      *)
HasStructParameter(shader) ==
    \E i \in 1..Len(shader.vertex_parameters) : shader.vertex_parameters[i].tag = "Struct"

EntriesOfKind(manifest, kind) ==
    SelectSeq(manifest, LAMBDA entry : entry.resource_type = kind)

(* C15: the draw-call kind is indexed exactly when some vertex entry point  *)
(* parameter is a struct, and then the manifest starts with one             *)
(* VertexBuffer entry followed by one IndexBuffer entry; otherwise the      *)
(* kind is vertex-count and the manifest has no VertexBuffer or IndexBuffer *)
(* entry.                                                                   *)
C15_DrawCallKind ==
    \A sf \in ShaderFiles :
        LET manifest == sf.file.required_resources
        IN /\ (sf.file.draw_call = "DrawIndexed") = HasStructParameter(sf.shader)
           /\ sf.file.draw_call \in {"DrawIndexed", "DrawVertexCount"}
           /\ IF HasStructParameter(sf.shader)
              THEN /\ Len(manifest) >= 2
                   /\ Briefs(SubSeq(manifest, 1, 2))
                        = <<[field_name |-> "vertices", resource_type |-> "VertexBuffer"],
                            [field_name |-> "indices", resource_type |-> "IndexBuffer"]>>
                   /\ Len(EntriesOfKind(manifest, "VertexBuffer")) = 1
                   /\ Len(EntriesOfKind(manifest, "IndexBuffer")) = 1
              ELSE /\ EntriesOfKind(manifest, "VertexBuffer") = <<>>
                   /\ EntriesOfKind(manifest, "IndexBuffer") = <<>>

(* A shader whose vertex entry point takes a builtin scalar and then a      *)
(* struct, in front of a parameter block, has been built as indexed.        *)
C15_Witness ==
    \E sf \in ShaderFiles :
        /\ Len(sf.shader.vertex_parameters) = 2
        /\ sf.shader.vertex_parameters[1] = SemanticParameter
        /\ sf.shader.vertex_parameters[2].tag = "Struct"
        /\ Len(sf.shader.vertex_parameters[2].fields) > 0
        /\ Len(sf.shader.global_parameters) = 1
        /\ sf.file.draw_call = "DrawIndexed"

-----------------------------------------------------------------------------
(* The wire format the shape of a per-vertex field calls for; None for a    *)
(* shape without one.                                                       *)
WireFormat(field) ==
    CASE field.tag = "Vector" /\ field.scalar_type = "Float32" /\ field.element_count = 3
           -> Some("ash::vk::Format::R32G32B32_SFLOAT")
      [] field.tag = "Vector" /\ field.scalar_type = "Float32" /\ field.element_count = 2
           -> Some("ash::vk::Format::R32G32_SFLOAT")
      [] field.tag = "Scalar" /\ field.scalar_type = "Uint32"
           -> Some("ash::vk::Format::R32_UINT")
      [] OTHER -> None

StructParametersOf(shader) ==
    SelectSeq(shader.vertex_parameters, LAMBDA param : param.tag = "Struct")

(* The attribute descriptions that go with the fields, one per field in     *)
(* field order, location counted from 0.                                    *)
AttributesFor(fields) ==
    [i \in 1..Len(fields) |->
        [field_name |-> to_snake_case(fields[i].field_name),
         format |-> WireFormat(fields[i]),
         location |-> i - 1]]

(* The shader built last, or being built.                                   *)
CurrentShader == shaders[IF shader_idx > Len(shaders) THEN Len(shaders) ELSE shader_idx]

IsSemanticVector(field) == field.tag = "SemanticVector"

(* The fields of a per-vertex struct that carry per-vertex data.            *)
DataFields(fields) == SelectSeq(fields, LAMBDA f : ~IsSemanticVector(f))

-----------------------------------------------------------------------------
(* The builtin family: textures, vector buffers and semantic vectors at     *)
(* every depth of the field tree: in the parameter block, in a nested       *)
(* struct and in a storage-buffer element.                                  *)
MaxBuiltinNodes == 4

BuiltinFamily ==
    [leaves |-> {<<"f32", 0>>},
     nested_names |-> {"Inner"},
     element_names |-> {"Sphere"},
     others |-> {"Texture", "SemanticVector"},
     member_others |-> {"Texture", "SemanticVector"},
     member_starts |-> {1},
     names |-> FieldNames]

InitBuiltin == InitFamily(BuiltinFamily, MaxBuiltinNodes)

SpecBuiltin == InitBuiltin /\ [][Next]_vars

-----------------------------------------------------------------------------
(* A field without host data: a semantic vector, a texture or a buffer of   *)
(* vectors.  (A storage buffer of structs has no host data in the           *)
(* containing type either, but it brings its element type.)                 *)
IsUnbound(field) ==
    \/ IsSemanticVector(field)
    \/ IsResource(field) /\ field.result_type # "Struct"

(* The field tree without its fields without host data, at every depth.     *)
RECURSIVE WithoutUnbound(_)
WithoutUnbound(fields) ==
    IF fields = <<>> THEN <<>>
    ELSE (IF IsUnbound(Head(fields)) THEN <<>>
          ELSE <<[Head(fields) EXCEPT !.fields = WithoutUnbound(@)]>>)
         \o WithoutUnbound(Tail(fields))

RECURSIVE HasUnboundIn(_)
HasUnboundIn(fields) ==
    \E i \in 1..Len(fields) : IsUnbound(fields[i]) \/ HasUnboundIn(fields[i].fields)

(* The definitions of a one-block shader's file, but for Resources.         *)
TypeDefinitionsOf(file) == SubSeq(file.struct_defs, 1, Len(file.struct_defs) - 1)

(* C18: Resource fields and semantic vector fields never occupy host        *)
(* layout space.  Wherever they are in the field tree, the types generated  *)
(* are the ones generated for the tree without them: the same fields and    *)
(* padding, the same byte sizes, the same struct alignments.                *)
C18_UnboundFieldsLeaveNoTrace ==
    \A sf \in ShaderFiles :
        TypeDefinitionsOf(sf.file)
            = BuiltAlone(sf.shader,
                  generate_std140_struct_fields(
                      WithoutUnbound(sf.shader.global_parameters[1].fields), FreshCtx))

(* A file has been generated for a parameter block with a field without     *)
(* host data next to a bound field, and for a storage-buffer element with   *)
(* one inside a nested struct.                                              *)
C18_Witness ==
    \E sf \in ShaderFiles :
        LET block_fields == sf.shader.global_parameters[1].fields
        IN /\ \E i \in 1..Len(block_fields) : IsUnbound(block_fields[i])
                 \/ (/\ IsResource(block_fields[i])
                     /\ \E j \in 1..Len(block_fields[i].fields) :
                           /\ block_fields[i].fields[j].tag = "Struct"
                           /\ HasUnboundIn(block_fields[i].fields[j].fields))
           /\ HasUnboundIn(block_fields)

-----------------------------------------------------------------------------
IsStructBuffer(field) == IsResource(field) /\ field.result_type = "Struct"

WithoutStructBuffers(fields) == SelectSeq(fields, LAMBDA f : ~IsStructBuffer(f))

(* The definition an element type gets under the Storage rule set: r is     *)
(* what the synthesis of its members returns.                               *)
ElementDefinition(t, r) ==
    GeneratedStructDefinition(t.type_name, r.fields,
                              Some(Std430(r.struct_alignment)), Some(r.expected_size))

(* The definition of the parameter block's type given r, what the synthesis *)
(* of its fields returns.                                                   *)
BlockDefinition(block, r) ==
    GeneratedStructDefinition(block.type_name, r.fields, Some(Std140),
                              Some(r.expected_size))

(* C19: the element type of a storage buffer of structs is synthesized      *)
(* under the Storage rule set and registered with its computed struct       *)
(* alignment and byte size, and the buffer field contributes nothing to the *)
(* layout of the type that contains it.                                     *)
C19_ElementTypeRegistered ==
    \A sf \in ShaderFiles :
        /\ \A t \in ElementTypesOf(sf.shader) :
              find_struct_def(sf.file.struct_defs, t.type_name)
                 = Some(ElementDefinition(t,
                            generate_std430_struct_fields(t.fields, FreshCtx)))
        /\ find_struct_def(sf.file.struct_defs, sf.shader.global_parameters[1].type_name)
              = Some(BlockDefinition(sf.shader.global_parameters[1],
                         generate_std140_struct_fields(
                             WithoutStructBuffers(sf.shader.global_parameters[1].fields),
                             FreshCtx)))

(* A block with a bound field and a storage buffer of a struct with a       *)
(* member has been built; the block's type holds the bound field only.      *)
C19_Witness ==
    \E sf \in ShaderFiles :
        /\ \E t \in ElementTypesOf(sf.shader) :
              /\ Len(t.fields) > 0
              /\ TimesRegistered(sf.file.struct_defs, t.type_name) = 1
        /\ \E i \in 1..Len(sf.shader.global_parameters[1].fields) :
              /\ IsBound(sf.shader.global_parameters[1].fields[i])
              /\ sf.shader.global_parameters[1].fields[i].tag = "Scalar"
        /\ Len(sf.shader.global_parameters[1].fields) = 2
        /\ Len(RealFields(Unwrap(find_struct_def(sf.file.struct_defs, "Params")).fields)) = 1

-----------------------------------------------------------------------------
(* The shape family: supported and unsupported vector and matrix shapes at  *)
(* every depth of the field tree.                                           *)
MaxShapeNodes == 3

ShapeFamily ==
    [leaves |-> {"f32", "vec3", "vec1", "uvec3", "mat4", "mat3x4", "umat2"} \X {0},
     nested_names |-> {"Inner"},
     element_names |-> {"Sphere"},
     others |-> {},
     member_others |-> {},
     member_starts |-> {1},
     names |-> FieldNames]

InitShape == InitFamily(ShapeFamily, MaxShapeNodes)

SpecShape == InitShape /\ [][Next]_vars

(* A bound vector or matrix of a shape without a layout rule.               *)
IsUnsupportedShape(field) ==
    \/ /\ field.tag = "Vector"
       /\ ~(field.scalar_type = "Float32" /\ field.element_count \in {2, 3, 4})
    \/ /\ field.tag = "Matrix"
       /\ ~(/\ field.scalar_type = "Float32"
            /\ field.row_count = field.column_count
            /\ field.row_count \in {2, 3, 4})

RECURSIVE HasUnsupportedShape(_)
HasUnsupportedShape(fields) ==
    \E i \in 1..Len(fields) :
        IsUnsupportedShape(fields[i]) \/ HasUnsupportedShape(fields[i].fields)

(* The registry after the types of the field tree that are complete before *)
(* its first field of an unsupported shape: the types that field is not in. *)
RECURSIVE RegisteredBefore(_, _, _)
RegisteredBefore(fields, ctx, alignment) ==
    IF fields = <<>> THEN ctx
    ELSE IF IsUnsupportedShape(Head(fields)) THEN ctx
    ELSE IF HasUnsupportedShape(Head(fields).fields)
    THEN RegisteredBefore(Head(fields).fields, ctx,
                          IF IsResource(Head(fields)) THEN Some(Std430(16)) ELSE alignment)
    ELSE RegisteredBefore(Tail(fields),
                          gather_struct_defs(Head(fields), ctx, alignment).ctx, alignment)

(* C20: synthesis of a field tree with a bound vector or matrix of a shape  *)
(* without a layout rule aborts: no file is generated or written, and the   *)
(* registry holds no type that contains the field, only the types that were *)
(* complete before it.                                                      *)
C20_UnsupportedShapeAborts ==
    (/\ pc # "begin"
     /\ block_idx > 1
     /\ HasUnsupportedShape(CurrentShader.global_parameters[1].fields))
        => /\ panicked
           /\ pc = "panicked"
           /\ generated_source_files = TopLevelFiles
           /\ written_files = <<>>
           /\ struct_defs
                = RegisteredBefore(CurrentShader.global_parameters[1].fields,
                                   FreshCtx, Some(Std140)).struct_defs
           /\ \A i \in 1..Len(struct_defs) :
                 struct_defs[i].type_name # CurrentShader.global_parameters[1].type_name

(* The build has aborted on an unsupported shape inside a storage-buffer    *)
(* element, after a type was registered.                                    *)
C20_Witness ==
    /\ pc = "panicked"
    /\ Len(struct_defs) > 0
    /\ \E i \in 1..Len(CurrentShader.global_parameters[1].fields) :
          /\ IsResource(CurrentShader.global_parameters[1].fields[i])
          /\ HasUnsupportedShape(CurrentShader.global_parameters[1].fields[i].fields)
    /\ \A r \in 1..Len(registrations) : registrations[r].outcome # "conflict"

-----------------------------------------------------------------------------
(* The binding family: scalars, vectors, matrices and nested structs whose  *)
(* binding is not a uniform offset and size, next to bound fields and       *)
(* semantic vectors.                                                        *)
MaxBindingNodes == 3

BindingFamily ==
    [leaves |-> {"f32", "f32_slot", "vec3_slot", "mat4_slot"} \X {0},
     nested_names |-> {},
     element_names |-> {"Sphere"},
     others |-> {"SemanticVector", "SlotStruct"},
     member_others |-> {"SemanticVector", "SlotStruct"},
     member_starts |-> {1},
     names |-> FieldNames]

InitBinding == InitFamily(BindingFamily, MaxBindingNodes)

SpecBinding == InitBinding /\ [][Next]_vars

(* A scalar, bound vector, matrix or nested struct without offset and size. *)
LacksBinding(field) ==
    /\ field.tag \in {"Scalar", "Vector", "Matrix", "Struct"}
    /\ field.binding.tag # "Uniform"

(* The fields the padding loops lay out: those of the parameter block and   *)
(* those of its storage-buffer elements.                                    *)
LaidOutFields(block_fields) ==
    {block_fields[i] : i \in 1..Len(block_fields)}
    \cup UNION {{block_fields[i].fields[j] : j \in 1..Len(block_fields[i].fields)} :
                   i \in {i \in 1..Len(block_fields) : IsStructBuffer(block_fields[i])}}

(* C21: a scalar, bound vector, matrix or nested-struct field without       *)
(* offset and size data makes synthesis fail fatally; a semantic vector     *)
(* field is the only field skipped for having no binding.                   *)
C21_MissingBindingIsFatal ==
    (/\ pc # "begin"
     /\ block_idx > 1
     /\ \E f \in LaidOutFields(CurrentShader.global_parameters[1].fields) :
           LacksBinding(f))
        => /\ panicked
           /\ pc = "panicked"
           /\ generated_source_files = TopLevelFiles

(* A file has been generated for a parameter block with a scalar whose      *)
(* binding is no uniform offset, after a bound scalar.                      *)
C21_Witness ==
    \E sf \in ShaderFiles :
        /\ Len(sf.shader.global_parameters[1].fields) >= 2
        /\ IsBound(sf.shader.global_parameters[1].fields[1])
        /\ LacksBinding(sf.shader.global_parameters[1].fields[2])
        /\ sf.shader.global_parameters[1].fields[2].tag = "Scalar"

-----------------------------------------------------------------------------
(* Building the one-block shader alone fails.                               *)
FailsAlone(shader) ==
    generate_std140_struct_fields(shader.global_parameters[1].fields, FreshCtx).ctx.panicked

(* The run is in one of its two outcomes or on the way to one: files are    *)
(* written only when every shader has been processed, and all of them; an   *)
(* aborted run stands at its first failing shader with nothing written.     *)
AllOrNothing ==
    /\ written_files # <<>>
          => /\ pc = "done" /\ ~panicked
             /\ shader_idx = Len(shaders) + 1
             /\ written_files = generated_source_files
    /\ pc = "done" => written_files = generated_source_files
    /\ Len(generated_source_files) = Len(TopLevelFiles) + shader_idx - 1
    /\ \A k \in 1..(shader_idx - 1) : ~FailsAlone(shaders[k])
    /\ panicked
          => /\ pc = "panicked"
             /\ shader_idx <= Len(shaders)
             /\ FailsAlone(shaders[shader_idx])
             /\ written_files = <<>>

(* No step is taken after a failure, the shaders are taken in order, and    *)
(* files are written only by the final loop.                                *)
NothingAfterAbort ==
    /\ panicked => UNCHANGED vars
    /\ shader_idx' \in {shader_idx, shader_idx + 1}
    /\ written_files' # written_files => pc = "write" /\ shader_idx = Len(shaders) + 1

-----------------------------------------------------------------------------
(* The native family: every supported scalar, vector and matrix shape, in   *)
(* the parameter block, in a nested struct and in a storage-buffer element. *)
MaxNativeNodes == 2

NativeFamily ==
    [leaves |-> {"f32", "u32", "vec2", "vec3", "vec4", "mat2", "mat3", "mat4"} \X {0},
     nested_names |-> {"Inner"},
     element_names |-> {"Sphere"},
     others |-> {},
     member_others |-> {},
     member_starts |-> {1},
     names |-> FieldNames]

InitNative == InitFamily(NativeFamily, MaxNativeNodes)

SpecNative == InitNative /\ [][Next]_vars

(* Every field of a field tree, at any depth.                               *)
RECURSIVE AllFields(_)
AllFields(fields) ==
    UNION {{fields[i]} \cup AllFields(fields[i].fields) : i \in 1..Len(fields)}

(* The host type name of a supported scalar, vector or matrix field.        *)
HostTypeName(field) ==
    CASE field.tag = "Scalar" -> Some(scalar_type_name(field.scalar_type))
      [] field.tag = "Vector" -> vector_type_name(field.scalar_type, field.element_count)
      [] field.tag = "Matrix" ->
           matrix_type_name(field.scalar_type, field.row_count, field.column_count)
      [] OTHER -> None

(* The table: 16 for a 4-vector and a square matrix, 16 for a 3-vector,     *)
(* 8 for a 2-vector, 4 for a 4-byte scalar.                                 *)
TableAlignment(field) ==
    CASE field.tag = "Matrix" -> 16
      [] field.tag = "Vector" /\ field.element_count = 4 -> 16
      [] field.tag = "Vector" /\ field.element_count = 3 -> 16
      [] field.tag = "Vector" /\ field.element_count = 2 -> 8
      [] field.tag = "Scalar" -> 4

(* C23: for every supported scalar, vector and matrix field the lookup by   *)
(* host type name and the lookup by reflected shape both return the value   *)
(* of the native alignment table (16, 16, 8, 4; never 12 for a 3-vector).   *)
C23_NativeAlignmentAgrees ==
    \A f \in AllFields(CurrentShader.global_parameters[1].fields) :
        IsSome(HostTypeName(f))
           => /\ field_alignment(Unwrap(HostTypeName(f))) = TableAlignment(f)
              /\ std430_field_alignment(f) = TableAlignment(f)

(* A block with a 3-vector and a 3x3 matrix has been laid out.              *)
C23_Witness ==
    /\ block_idx > 1
    /\ ~panicked
    /\ \E f, g \in AllFields(CurrentShader.global_parameters[1].fields) :
          /\ f.tag = "Vector" /\ f.element_count = 3
          /\ g.tag = "Matrix" /\ g.row_count = 3

-----------------------------------------------------------------------------
(* The naming family: a shader of one or two parameter blocks whose element *)
(* types are named Params or Sphere, with storage buffers of Sphere among   *)
(* their fields, and optionally a per-vertex struct named Params.           *)
MaxNameNodes == 2

NameFamily ==
    [leaves |-> {<<"f32", 0>>},
     nested_names |-> {},
     element_names |-> {"Sphere"},
     others |-> {},
     member_others |-> {},
     member_starts |-> {1},
     names |-> FieldNames]

BlockTypeNames == {"Params", "Sphere"}

NameVertexParameters ==
    {<<>>,
     <<StructParameter("Params",
           <<BoundVectorField("position", "Float32", 3, OtherBinding)>>)>>}

(* The lists of one or two parameter blocks over the field lists `blocks`.  *)
NameBlockLists(blocks) ==
    UNION {[1..n -> {ParameterBlock("", tn, fields) :
                        tn \in BlockTypeNames, fields \in blocks}] : n \in 1..2}

NamedBlocks(block_list) ==
    [b \in 1..Len(block_list) |->
        [block_list[b] EXCEPT !.parameter_name = BlockNames[b].parameter_name]]

InitNames ==
    /\ \E subs \in {Members(NameFamily, "Std140", MaxNameNodes)} :
       \E elems \in {Members(NameFamily, "Std430", MaxNameNodes)} :
       \E vp \in NameVertexParameters :
       \E bl \in NameBlockLists(FieldLists(NameFamily, MaxNameNodes, 1, 0,
                                           "Std140", subs, elems)) :
          shaders = <<Shader("names.shader.slang", vp, NamedBlocks(bl))>>
    /\ InitBuild

SpecNames == InitNames /\ [][Next]_vars

(* The type definitions that the generated file emits under one name.       *)
DefinitionsNamed(file, type_name) ==
    {i \in 1..Len(file.struct_defs) : file.struct_defs[i].type_name = type_name}

(* C24: in the type definitions emitted for one shader module no two        *)
(* definitions have the same type name.                                     *)
C24_TypeNamesUnique ==
    \A sf \in ShaderFiles :
        \A i \in 1..Len(sf.file.struct_defs) :
            DefinitionsNamed(sf.file, sf.file.struct_defs[i].type_name) = {i}

(* A file was generated for a shader with two parameter blocks of the same  *)
(* element type name.                                                       *)
C24_Witness ==
    \E sf \in ShaderFiles :
        /\ Len(sf.shader.global_parameters) = 2
        /\ sf.shader.global_parameters[1].type_name
              = sf.shader.global_parameters[2].type_name
        /\ sf.shader.vertex_parameters = <<>>

-----------------------------------------------------------------------------
(* The registration was accepted as a redundant re-declaration.             *)
IsRedundant(r) == r.outcome = "redundant"

(* The declaration the registry already holds under the candidate's name.   *)
RegisteredDeclaration(r) == Unwrap(find_struct_def(r.registry, r.candidate.type_name))

(* C25: a candidate accepted as a redundant re-declaration has the same     *)
(* alignment annotation and the same expected byte size as the declaration  *)
(* already registered.                                                      *)
C25_RedundantMeansSameLayout ==
    \A k \in 1..Len(registrations) :
        IsRedundant(registrations[k])
           => /\ registrations[k].candidate.alignment
                    = RegisteredDeclaration(registrations[k]).alignment
              /\ registrations[k].candidate.expected_size
                    = RegisteredDeclaration(registrations[k]).expected_size

(* A type first registered as a nested uniform field was offered again as a *)
(* storage-buffer element, was accepted as redundant, and the shader's file *)
(* was generated.                                                           *)
C25_Witness ==
    /\ \E k \in 1..Len(registrations) :
          /\ IsRedundant(registrations[k])
          /\ Len(registrations[k].candidate.fields) > 0
          /\ RegisteredDeclaration(registrations[k]).alignment = Some(Std140)
          /\ registrations[k].candidate.alignment # Some(Std140)
    /\ ShaderFiles # {}

-----------------------------------------------------------------------------
(* The candidate is a nested struct registered under the Storage rule set:  *)
(* its alignment is that of std430_struct_alignment and it has no expected  *)
(* size.                                                                    *)
IsStorageNested(def) ==
    /\ IsSome(def.alignment)
    /\ Unwrap(def.alignment) # Std140
    /\ ~IsSome(def.expected_size)

(* C26: the struct alignment computed for a nested struct under the         *)
(* Storage rule set is one of 4, 8 and 16 for every field list.             *)
C26_StorageAlignmentInRange ==
    \A k \in 1..Len(registrations) :
        IsStorageNested(registrations[k].candidate)
           => annotation_align(Unwrap(registrations[k].candidate.alignment)) \in {4, 8, 16}

(* A nested struct whose members are all Resource fields, at least one, has *)
(* been registered under the Storage rule set.                              *)
C26_Witness ==
    /\ block_idx > 1
    /\ \E sb \in {f \in LaidOutFields(CurrentShader.global_parameters[1].fields) :
                      IsStructBuffer(f)} :
       \E m \in 1..Len(sb.fields) :
          /\ sb.fields[m].tag = "Struct"
          /\ Len(sb.fields[m].fields) > 0
          /\ \A i \in 1..Len(sb.fields[m].fields) : IsResource(sb.fields[m].fields[i])
          /\ \E k \in 1..Len(registrations) :
                /\ IsStorageNested(registrations[k].candidate)
                /\ registrations[k].candidate.type_name = sb.fields[m].type_name

-----------------------------------------------------------------------------
(* The Resource fields reachable in a field tree through nested structs, in *)
(* declaration order.                                                       *)
RECURSIVE ReachableResources(_)
ReachableResources(fields) ==
    IF Len(fields) = 0 THEN <<>>
    ELSE (CASE IsResource(Head(fields)) -> <<Head(fields)>>
            [] Head(fields).tag = "Struct" -> ReachableResources(Head(fields).fields)
            [] OTHER -> <<>>)
         \o ReachableResources(Tail(fields))

(* The manifest entries for textures and storage buffers.                   *)
ResourceEntries(file) ==
    SelectSeq(file.required_resources,
              LAMBDA e : e.resource_type \in {"Texture", "StructuredBuffer"})

(* C27: every storage-buffer or texture Resource field reachable in a       *)
(* parameter block's field tree, one inside a nested struct included,       *)
(* yields exactly one manifest entry.                                       *)
C27_ReachableResourcesInManifest ==
    \A sf \in ShaderFiles :
        LET reachable == ReachableResources(sf.shader.global_parameters[1].fields)
        IN /\ Len(ResourceEntries(sf.file)) = Len(reachable)
           /\ \A i \in 1..Len(reachable) :
                 \E k \in 1..Len(sf.file.required_resources) :
                    Brief(sf.file.required_resources[k])
                       = [field_name |-> to_snake_case(reachable[i].field_name),
                          resource_type |-> EntryKind(reachable[i])]

(* A file was generated for a block with a texture inside a nested struct.  *)
C27_Witness ==
    \E sf \in ShaderFiles :
    \E i \in 1..Len(sf.shader.global_parameters[1].fields) :
        /\ sf.shader.global_parameters[1].fields[i].tag = "Struct"
        /\ \E j \in 1..Len(sf.shader.global_parameters[1].fields[i].fields) :
              /\ IsResource(sf.shader.global_parameters[1].fields[i].fields[j])
              /\ sf.shader.global_parameters[1].fields[i].fields[j].resource_shape
                    = "Texture2D"

-----------------------------------------------------------------------------
(* The field names of the manifest entries of one kind, in manifest order.  *)
NamesOfKind(manifest, kind) ==
    LET entries == EntriesOfKind(manifest, kind)
    IN [i \in 1..Len(entries) |-> entries[i].field_name]

IsVertexStageEntry(entry) == entry.resource_type \in {"VertexBuffer", "IndexBuffer"}

(* C28: the texture, uniform-buffer and storage-buffer handle lists of the  *)
(* pipeline configuration partition the non-vertex manifest entries by      *)
(* kind: each list holds exactly the entries of its kind, each once, in     *)
(* manifest order, and no VertexBuffer or IndexBuffer entry is in a list.   *)
C28_HandleListsPartitionManifest ==
    \A sf \in ShaderFiles :
        /\ sf.file.resources_texture_fields
              = NamesOfKind(sf.file.required_resources, "Texture")
        /\ sf.file.resources_uniform_buffer_fields
              = NamesOfKind(sf.file.required_resources, "UniformBuffer")
        /\ sf.file.resources_storage_buffer_fields
              = NamesOfKind(sf.file.required_resources, "StructuredBuffer")
        /\ Len(sf.file.resources_texture_fields)
              + Len(sf.file.resources_uniform_buffer_fields)
              + Len(sf.file.resources_storage_buffer_fields)
              = Len(SelectSeq(sf.file.required_resources,
                              LAMBDA e : ~IsVertexStageEntry(e)))
        /\ \A k \in 1..Len(sf.file.required_resources) :
              IsVertexStageEntry(sf.file.required_resources[k])
                 => \A list \in {sf.file.resources_texture_fields,
                                 sf.file.resources_uniform_buffer_fields,
                                 sf.file.resources_storage_buffer_fields} :
                       \A i \in 1..Len(list) :
                          list[i] # sf.file.required_resources[k].field_name

(* A file of an indexed-draw shader whose manifest holds two textures, two  *)
(* uniform buffers and a storage buffer.                                    *)
C28_Witness ==
    \E sf \in ShaderFiles :
        /\ \E k \in 1..Len(sf.file.required_resources) :
              IsVertexStageEntry(sf.file.required_resources[k])
        /\ Len(sf.file.resources_texture_fields) >= 2
        /\ Len(sf.file.resources_uniform_buffer_fields) = 2
        /\ Len(sf.file.resources_storage_buffer_fields) >= 1

-----------------------------------------------------------------------------
(* The handle arenas: StorageBufferStorage (renderer/storage_buffer.rs      *)
(* 20-63) and PipelineStorage (renderer/pipeline.rs 29-66), each a          *)
(* Vec<Option<V>> indexed by the handles that add returns.  The two have    *)
(* the same code; the operators below are those of StorageBufferStorage.    *)
(* A caller-side entry [index, value, held, emptied] records one call of    *)
(* add: the index of the handle it returned, the value it was given,        *)
(* whether the typed handle is still held (take consumes it), and whether   *)
(* a take of this handle or a take_all has been called since.               *)

MaxAdds == 2

(* The values handed to add: one per-frame buffer list, one pipeline.       *)
ArenaValues == {"spheres", "boxes"}

(* add that puts the value into the first emptied slot, if there is one.    *)
add_reusing(slots, value) ==
    LET free == {i \in 1..Len(slots) : ~IsSome(slots[i])}
    IN IF free = {}
       THEN [slots |-> Append(slots, Some(value)), index |-> Len(slots)]
       ELSE LET i == CHOOSE i \in free : \A j \in free : i <= j
            IN [slots |-> [slots EXCEPT ![i] = Some(value)], index |-> i - 1]

(* add: the handle's index is self.0.len() before the push.                 *)
add(slots, value) ==
    [slots |-> Append(slots, Some(value)), index |-> Len(slots)]

(* get_raw / get: self.0[handle.index].as_ref(), before its unwrap().       *)
get(slots, index) == slots[index + 1]

(* take: self.0[handle.index].take(); `taken` is what unwrap() is given.    *)
take(slots, index) ==
    [slots |-> [slots EXCEPT ![index + 1] = None], taken |-> slots[index + 1]]

(* take_all: every slot is take()n.                                         *)
take_all(slots) == [i \in 1..Len(slots) |-> None]

Issued(handles, index, value) ==
    Append(handles, [index |-> index, value |-> value, held |-> TRUE, emptied |-> FALSE])

Consumed(handles, k) == [handles EXCEPT ![k].held = FALSE, ![k].emptied = TRUE]

AllEmptied(handles) == [k \in 1..Len(handles) |-> [handles[k] EXCEPT !.emptied = TRUE]]

StorageBufferAdd ==
    /\ ~unwrap_panicked
    /\ Len(storage_buffer_handles) < MaxAdds
    /\ \E buffers_per_frame \in ArenaValues :
       \E r \in {add(storage_buffers, buffers_per_frame)} :
          /\ storage_buffers' = r.slots
          /\ storage_buffer_handles' =
                Issued(storage_buffer_handles, r.index, buffers_per_frame)
    /\ UNCHANGED <<pipelines, pipeline_handles, unwrap_panicked, build_vars, app_vars>>

StorageBufferTake ==
    /\ ~unwrap_panicked
    /\ \E k \in 1..Len(storage_buffer_handles) :
          /\ storage_buffer_handles[k].held
          /\ \E r \in {take(storage_buffers, storage_buffer_handles[k].index)} :
                /\ storage_buffers' = r.slots
                /\ unwrap_panicked' = ~IsSome(r.taken)
          /\ storage_buffer_handles' = Consumed(storage_buffer_handles, k)
    /\ UNCHANGED <<pipelines, pipeline_handles, build_vars, app_vars>>

StorageBufferTakeAll ==
    /\ ~unwrap_panicked
    /\ Len(storage_buffers) > 0
    /\ storage_buffers' = take_all(storage_buffers)
    /\ storage_buffer_handles' = AllEmptied(storage_buffer_handles)
    /\ UNCHANGED <<pipelines, pipeline_handles, unwrap_panicked, build_vars, app_vars>>

PipelineAdd ==
    /\ ~unwrap_panicked
    /\ Len(pipeline_handles) < MaxAdds
    /\ \E pipeline \in ArenaValues :
       \E r \in {add(pipelines, pipeline)} :
          /\ pipelines' = r.slots
          /\ pipeline_handles' = Issued(pipeline_handles, r.index, pipeline)
    /\ UNCHANGED <<storage_buffers, storage_buffer_handles, unwrap_panicked,
                   build_vars, app_vars>>

PipelineTake ==
    /\ ~unwrap_panicked
    /\ \E k \in 1..Len(pipeline_handles) :
          /\ pipeline_handles[k].held
          /\ \E r \in {take(pipelines, pipeline_handles[k].index)} :
                /\ pipelines' = r.slots
                /\ unwrap_panicked' = ~IsSome(r.taken)
          /\ pipeline_handles' = Consumed(pipeline_handles, k)
    /\ UNCHANGED <<storage_buffers, storage_buffer_handles, build_vars, app_vars>>

PipelineTakeAll ==
    /\ ~unwrap_panicked
    /\ Len(pipelines) > 0
    /\ pipelines' = take_all(pipelines)
    /\ pipeline_handles' = AllEmptied(pipeline_handles)
    /\ UNCHANGED <<storage_buffers, storage_buffer_handles, unwrap_panicked,
                   build_vars, app_vars>>

NextArenas ==
    \/ StorageBufferAdd \/ StorageBufferTake \/ StorageBufferTakeAll
    \/ PipelineAdd \/ PipelineTake \/ PipelineTakeAll

(* The renderer with no build running: no shader is being generated.        *)
InitRenderer == shaders = <<>> /\ InitBuild

SpecArenas == InitRenderer /\ [][NextArenas]_vars

(* What the claim asks of one arena, given the calls of add so far.         *)
HandlesResolve(slots, handles) ==
    /\ Len(slots) = Len(handles)
    /\ \A k \in 1..Len(handles) :
          /\ handles[k].index = k - 1
          /\ ~handles[k].emptied => get(slots, handles[k].index) = Some(handles[k].value)
          /\ handles[k].emptied => get(slots, handles[k].index) = None

(* C29: in both arenas, after any sequence of add, take and take_all, add   *)
(* has given its k-th call the index k - 1, every handle whose slot was not *)
(* emptied by take or take_all resolves to the value passed to its add, and *)
(* an emptied slot stays empty: no index is reused and take empties only    *)
(* its own slot.                                                            *)
C29_HandlesResolve ==
    /\ HandlesResolve(storage_buffers, storage_buffer_handles)
    /\ HandlesResolve(pipelines, pipeline_handles)

(* A storage buffer was taken while a later one stays in place, and a       *)
(* pipeline was added after a take_all.                                     *)
C29_Witness ==
    /\ Len(storage_buffer_handles) = 2
    /\ ~storage_buffer_handles[1].held
    /\ ~storage_buffer_handles[2].emptied
    /\ Len(pipeline_handles) = 2
    /\ pipeline_handles[1].held /\ pipeline_handles[1].emptied
    /\ ~pipeline_handles[2].emptied

-----------------------------------------------------------------------------
(* The application loop: App::run_loop and App::handle_events (app.rs).     *)
(* An event is one SDL event as handle_events tells them apart; Resized     *)
(* comes with the outcome of renderer.on_resize.  run_loop_pc is the        *)
(* position in run_loop: "handle_events", "frame", "delay", "drain_gpu" or  *)
(* "returned".                                                              *)

MaxIterations == 5

MaxEvents == 2

EventKinds ==
    {"Quit", "Escape", "Resized", "ResizedError", "Minimized", "Maximized",
     "Restored", "KeyDown"}

(* What event_pump.poll_iter() yields in one call of handle_events.         *)
EventBatches == UNION {[1..n -> EventKinds] : n \in 0..MaxEvents}

(* The loop of handle_events from event i on: a quit or Escape event sets   *)
(* quit and returns Ok, an error of on_resize is returned by `?`.           *)
RECURSIVE handle_events(_, _, _)
handle_events(events, i, app) ==
    IF i > Len(events) THEN [app EXCEPT !.result = "Ok"]
    ELSE CASE events[i] \in {"Quit", "Escape"} ->
                [app EXCEPT !.quit = TRUE, !.result = "Ok"]
           [] events[i] = "ResizedError" -> [app EXCEPT !.result = "Err"]
           [] events[i] = "Minimized" ->
                handle_events(events, i + 1, [app EXCEPT !.minimized = TRUE])
           [] events[i] \in {"Maximized", "Restored"} ->
                handle_events(events, i + 1, [app EXCEPT !.minimized = FALSE])
           [] OTHER -> handle_events(events, i + 1, app)

(* Lines 29-36: handle_events, then the two breaks and the minimized test.  *)
HandleEvents ==
    /\ run_loop_pc = "handle_events"
    /\ iterations < MaxIterations
    /\ \E events \in EventBatches :
       \E r \in {handle_events(events, 1,
                               [quit |-> quit, minimized |-> minimized, result |-> "Ok"])} :
          /\ quit' = r.quit
          /\ minimized' = r.minimized
          /\ run_loop_pc' = IF r.result = "Err" \/ r.quit THEN "drain_gpu"
                            ELSE IF ~r.minimized THEN "frame"
                            ELSE "delay"
    /\ iterations' = iterations + 1
    /\ UNCHANGED <<frames_drawn, drain_gpu_calls, run_loop_result, build_vars, arena_vars>>

(* Lines 37-45: update, the egui frame and game.draw_frame(..)?.            *)
DrawFrame ==
    /\ run_loop_pc = "frame"
    /\ \E draw_frame \in {"Ok", "Err"} :
          IF draw_frame = "Ok"
          THEN /\ frames_drawn' = frames_drawn + 1
               /\ run_loop_pc' = "delay"
               /\ UNCHANGED run_loop_result
          ELSE /\ run_loop_result' = Some("Err")
               /\ run_loop_pc' = "returned"
               /\ UNCHANGED frames_drawn
    /\ UNCHANGED <<quit, minimized, iterations, drain_gpu_calls, build_vars, arena_vars>>

(* Lines 48-49: SDL_DelayPrecise, then the next iteration.                  *)
FrameDelay ==
    /\ run_loop_pc = "delay"
    /\ run_loop_pc' = "handle_events"
    /\ UNCHANGED <<quit, minimized, iterations, frames_drawn, drain_gpu_calls,
                   run_loop_result, build_vars, arena_vars>>

(* Lines 52-54: self.renderer.drain_gpu()?; Ok(()).                         *)
DrainGpu ==
    /\ run_loop_pc = "drain_gpu"
    /\ drain_gpu_calls' = drain_gpu_calls + 1
    /\ \E drain_gpu \in {"Ok", "Err"} : run_loop_result' = Some(drain_gpu)
    /\ run_loop_pc' = "returned"
    /\ UNCHANGED <<quit, minimized, iterations, frames_drawn, build_vars, arena_vars>>

NextApp == HandleEvents \/ DrawFrame \/ FrameDelay \/ DrainGpu

SpecApp == InitRenderer /\ [][NextApp]_vars

(* C30: run_loop calls renderer.drain_gpu before it returns, on every exit  *)
(* path: after a quit or Escape event, after an error from event handling   *)
(* and after an error returned by the game's draw_frame.                    *)
C30_DrainBeforeReturn ==
    IsSome(run_loop_result) => drain_gpu_calls >= 1

(* run_loop has returned an error in an iteration that drew a frame, after  *)
(* at least one frame was drawn and no quit was requested.                  *)
C30_Witness ==
    /\ run_loop_result = Some("Err")
    /\ run_loop_pc = "returned"
    /\ ~quit /\ ~minimized
    /\ frames_drawn >= 1
    /\ drain_gpu_calls = 0

====
